---- MODULE Spec2Model ----
(***************************************************************************)
(* A model of the dutchdutch-ascend client: the Connection multiplexer     *)
(* (src/src/connection.rs) and the Discovery loop (src/src/discovery.rs).  *)
(*                                                                         *)
(* ConnSpec / ConnFairSpec : one Connection, its reader and writer tasks,  *)
(*                           and MaxCalls concurrent send_request calls.   *)
(* DiscSpec / DiscFairSpec : one Discovery, the loops its start() calls    *)
(*                           spawn, and the user calling start()/stop().   *)
(* RestartSpec             : the same, the loops scanning without failures.*)
(* StopSpec / StopFairSpec : the same with a single start().               *)
(* CycleSpec               : a single start(), the loop left to run.       *)
(* NoteSpec                : a single start(), one device, its link's      *)
(*                           notifications and the forwarders.             *)
(* SnapSpec                : the same with varying scans and a rooms() call*)
(* LagSpec                 : a single start(), one device, its link        *)
(*                           publishing faster than the forwarders receive.*)
(* SendSpec                : one Connection with send_request and send_only*)
(*                           callers and well-formed replies.              *)
(* ReplySpec               : one send_request call answered with errors.   *)
(* DecodeSpec              : one Connection whose transport also delivers  *)
(*                           text that is no Response.                     *)
(* LinkSpec / LinkFairSpec : a single start(), one device whose link can   *)
(*                           close, and the forwarders on it.              *)
(* LockSpec / LockFairSpec : MaxTasks tasks using the registry lock and    *)
(*                           the rooms' state locks.                       *)
(***************************************************************************)
EXTENDS Integers, Sequences, FiniteSets, TLC

\* ------------------------------------------------------------------ bounds
MaxCalls == 2       \* send_request calls issued on the connection
MaxFrames == 3      \* inbound messages the transport delivers to the reader
MaxOnly == 1        \* send_only calls issued on the connection
MaxDetails == 2     \* distinct detail texts of ApiError entries
MaxErrors == 2      \* entries of a Response's errors list

MaxStarts == 2      \* start() calls on the Discovery
MaxAddrs == 2       \* distinct device addresses the discovery service reports
MaxFails == 9       \* the count of consecutive failed cycles saturates here
MaxRetry == 2       \* DiscSpec: consecutive failing cycles the network inflicts on a loop
MaxForwarders == 2  \* the count of forwarder tasks per address saturates here
MaxLinks == 2       \* the count of connections made to one address saturates here
MaxRooms == 2       \* distinct room ids the devices know
MaxVals == 2        \* distinct room states a payload can carry
MaxNotes == 3       \* RoomUpdates the device links publish
MaxQuietNotes == 1  \* NoteSpec, SnapSpec: RoomUpdates the device links publish there
MaxRetained == 2    \* values the notification channel keeps for a receiver (100 in the source)
MaxIdleStops == 1   \* the count of stop() calls that found nothing to stop saturates here
MaxTasks == 3       \* tasks and callers using the registry lock and the state locks at a time

Calls == 1..MaxCalls
\* Correlation tokens: Uuid::new_v4() gives every Request a fresh one.
Tokens == 1..MaxCalls
\* An id the client never issued (a push notification's id).
ForeignId == MaxCalls + 1
\* The ids of the Requests given to send_only (fresh as well), in call order.
OnlyIds == (ForeignId + 1)..(ForeignId + MaxOnly)

VARIABLES
    \* ---- Connection (connection.rs)
    pending_requests,   \* ConnectionState.pending_requests: token -> the call holding the oneshot receiver
    ws_queue,           \* frames sent on ws_tx and not yet taken by the writer task
    wire,               \* frames the writer task has written to the socket, in order
    writer,             \* writer task: "running" | "stopped" (a socket write failed, ws_rx dropped)
    reader,             \* reader task: "running" | "closing" (loop left, awaiting the lock) | "exited"
    published,          \* StateUpdates sent on subscription_tx, in order (by the frame each was parsed from)
    next_id,            \* the next fresh correlation token
    nframes,            \* inbound messages read so far
    pc,                 \* per call: "idle" | "waiting" | "timedout" | "done"
    token,              \* per call: request.id()
    rx,                 \* per call: the oneshot receiver: [st: "open"|"value"|"closed"|"dropped", id, errors]
    result,             \* per call: what send_request returned
    api_detail,         \* per call: the detail of the ApiError it returned, or NoDetail
    only_results,       \* what the send_only calls returned, in call order
    \* ---- history of the connection (read by the properties only)
    resolutions,        \* per token: how often tx.send reached a live receiver
    orphaned,           \* tokens of frames that took the no-match branch of handle_message
    elapsed,            \* calls whose timeout(REQUEST_TIMEOUT, rx) returned Elapsed
    pendingAtClose,     \* calls whose entry was in the table when the reader cleared it
    waitingAtClose,     \* those of them still awaiting their receiver at that moment
    issuedAfterClose,   \* calls issued after the reader task had exited
    illShaped,          \* an unmatched frame failing the notification shape check has been handled
    submitted,          \* the ids of the frames accepted by ws_tx.send, in the order of the sends
    undecoded,          \* which inbound messages (1st, 2nd, ..) were text that is no Response
    \* ---- Discovery (discovery.rs)
    stop_tx,            \* Discovery.stop_tx: the loop whose channel it sends on, or NoGen
    task_handle,        \* Discovery.task_handle: the loop it joins, or NoGen
    ngen,               \* loops spawned so far
    api_pc,             \* the caller of start()/stop(): "idle" | "stop_join" | "start_join"
    joining,            \* the loop whose JoinHandle stop() is awaiting
    speakers,           \* Discovery.speakers: the addresses with a Device Link
    rooms,              \* Discovery.rooms: room id -> the state held by the registered Room
    forwarders,         \* per address: forwarder tasks spawned on its link
    links,              \* per address: connections SpeakerConnection::connect has made to it
    inbox,              \* per address: for each forwarder, the RoomUpdates its receiver holds
    events,             \* per room id: the change events sent for it on update_tx
    snap,               \* the Vec<Room> one rooms() call returned, and what it shows now
    nnotes,             \* RoomUpdates published so far
    fwd,                \* per address: for each forwarder, "running" | "lagged" (its receiver lost values) | "ended"
    nested,             \* the pairs <<held, acquired>> of locks a task has taken one inside the other
    late,               \* which RoomUpdates (1st, 2nd, ..) were published with every loop stopped
    closed,             \* the addresses whose Device Link's connection has closed
    announced,          \* per room id: the latest RoomUpdate a change event has been sent for
    recvErr,            \* the errors the forwarders' receiver.recv() have returned
    locking,            \* per lock user: the locks it takes, in order, how many it holds, whether it is releasing
    unseen,             \* the registered room ids the latest scan step did not find in the network state
    lpc,                \* per loop: where the spawned task is suspended
    backoff,            \* per loop: its `backoff`, in seconds
    stop_rx,            \* per loop: its stop_rx: "unsubscribed" | "empty" | "signal"
    inner_rx,           \* per loop: the cycle's stop_rx_inner: "none" | "empty" | "signal"
    todo,               \* per loop: the addresses of the reply still to process, current first
    kind,               \* per loop: the way run_discovery_once is about to return
    \* ---- history of the discovery (read by the properties only)
    stopSent,           \* per loop: stop() has sent on its channel
    fails,              \* per loop: consecutive cycles that returned Err
    skipped,            \* per loop: addresses of the current pass whose process_speaker returned Err
    idleStops           \* stop() calls that found neither a channel nor a handle

connVars == <<pending_requests, ws_queue, wire, writer, reader, published, next_id,
              nframes, pc, token, rx, result, api_detail, only_results>>
connHist == <<resolutions, orphaned, elapsed, pendingAtClose, waitingAtClose,
              issuedAfterClose, illShaped, submitted, undecoded>>

connAll == <<connVars, connHist>>

\* The notification path behind the registries.
noteVars == <<inbox, events, snap, nnotes, unseen, fwd, nested, late, closed, announced,
              recvErr, locking>>

discVars == <<stop_tx, task_handle, ngen, api_pc, joining, speakers, rooms, forwarders,
              lpc, backoff, stop_rx, inner_rx, todo, kind, links, noteVars>>
discHist == <<stopSent, fails, skipped, idleStops>>
discAll == <<discVars, discHist>>

vars == <<connAll, discAll>>

\* ------------------------------------------------------------- Connection

\* protocol.rs Response, as far as the connection looks at it: meta.id,
\* has_errors(), meta.method, meta.response_type, and whether data.state has
\* an entry whose data is of type "room".
Details == 1..MaxDetails
NoDetail == 0

\* Response.errors, an Option<Vec<ApiError>>: None, or Some of the details.
NoErrors == [some |-> FALSE, list |-> <<>>]
SomeErrors(l) == [some |-> TRUE, list |-> l]
ErrorLists == UNION {[1..n -> Details] : n \in 0..MaxErrors}
ErrorOptions == {NoErrors} \cup {SomeErrors(l) : l \in ErrorLists}

\* The two cases the connection itself tells apart: no errors, one error.
PlainErrors == {NoErrors, SomeErrors(<<1>>)}

Ids == Tokens \cup {ForeignId} \cup OnlyIds

Responses == [id : Ids, errors : PlainErrors,
              method : {"notify", "read"}, rtype : {"network", "other"},
              room : BOOLEAN]

\* Replies as a device sends them to a Read: any errors value, no room in it.
ErrorResponses == [id : Ids, errors : ErrorOptions,
                   method : {"read"}, rtype : {"other"}, room : {FALSE}]

\* Frames without errors: a reply to a Read, or a room notification.
PlainResponses ==
    {r \in [id : Ids, errors : {NoErrors}, method : {"notify", "read"},
             rtype : {"network"}, room : BOOLEAN] : r.room <=> r.method = "notify"}

OpenRx == [st |-> "open", id |-> ForeignId, errors |-> NoErrors]

ConnInit ==
    /\ pending_requests = <<>>
    /\ ws_queue = <<>>
    /\ wire = <<>>
    /\ writer = "running"
    /\ reader = "running"
    /\ published = <<>>
    /\ next_id = 1
    /\ nframes = 0
    /\ pc = [c \in Calls |-> "idle"]
    /\ token = [c \in Calls |-> ForeignId]
    /\ rx = [c \in Calls |-> OpenRx]
    /\ result = [c \in Calls |-> "none"]
    /\ resolutions = [t \in Tokens |-> 0]
    /\ orphaned = {}
    /\ elapsed = {}
    /\ pendingAtClose = {}
    /\ waitingAtClose = {}
    /\ issuedAfterClose = {}
    /\ illShaped = FALSE
    /\ api_detail = [c \in Calls |-> NoDetail]
    /\ only_results = <<>>
    /\ submitted = <<>>
    /\ undecoded = {}

\* HashMap::remove
MapRemove(m, k) == [x \in (DOMAIN m) \ {k} |-> m[x]]
\* HashMap::insert
MapInsert(m, k, v) == [x \in (DOMAIN m) \cup {k} |-> IF x = k THEN v ELSE m[x]]

\* Mutant of Enqueue: the newest frame goes to the front.
Enqueue_Front(q, t) == <<t>> \o q

\* mpsc::UnboundedSender::send: the value goes behind those already queued.
Enqueue(q, t) == Append(q, t)

\* Mutant of WsTxClosed: the channel to the writer never reports it closed.
WsTxClosed_Never == FALSE

\* ws_tx.send returns Err: the writer task has ended and dropped ws_rx.
WsTxClosed == writer = "stopped"

\* Mutant of AfterRegister: the frame is handed over with no entry registered.
AfterRegister_Skip(t, c) == pending_requests

\* `state.pending_requests.insert(request_id, tx)`, the first statement of the
\* critical section.
AfterRegister(t, c) == MapInsert(pending_requests, t, c)

\* send_request up to the end of its critical section: register the pending
\* entry, then hand the frame to the writer; ws_tx.send fails once the writer
\* task has ended, and the `?` returns ConnectionClosed with the entry left.
SendRequest(c) ==
    /\ pc[c] = "idle"
    /\ c = next_id          \* the calls are numbered in the order they are issued
    /\ LET t == next_id IN
        /\ next_id' = next_id + 1
        /\ token' = [token EXCEPT ![c] = t]
        /\ pending_requests' = AfterRegister(t, c)
        /\ IF WsTxClosed
              THEN /\ pc' = [pc EXCEPT ![c] = "done"]
                   /\ result' = [result EXCEPT ![c] = "ConnectionClosed"]
                   /\ rx' = [rx EXCEPT ![c].st = "dropped"]
                   /\ UNCHANGED <<ws_queue, submitted>>
              ELSE /\ pc' = [pc EXCEPT ![c] = "waiting"]
                   /\ ws_queue' = Enqueue(ws_queue, t)
                   /\ submitted' = Append(submitted, t)
                   /\ UNCHANGED <<result, rx>>
    /\ issuedAfterClose' = IF reader = "exited" THEN issuedAfterClose \cup {c}
                                                ELSE issuedAfterClose
    /\ UNCHANGED <<wire, writer, reader, published, nframes, api_detail, only_results>>
    /\ UNCHANGED <<resolutions, orphaned, elapsed, pendingAtClose, waitingAtClose,
                   illShaped, undecoded>>
    /\ UNCHANGED discAll

\* Mutant of AfterSendOnly: the request is registered, as in send_request.
AfterSendOnly_Register(t) == MapInsert(pending_requests, t, 1)

\* The table send_only leaves behind: it takes the lock for ws_tx alone.
AfterSendOnly(t) == pending_requests

\* send_only: under the lock, hand the frame to the writer; ws_tx.send fails
\* once the writer task has ended.
SendOnly ==
    /\ Len(only_results) < MaxOnly
    /\ LET t == ForeignId + Len(only_results) + 1 IN
        /\ pending_requests' = AfterSendOnly(t)
        /\ IF WsTxClosed
              THEN /\ only_results' = Append(only_results, "ConnectionClosed")
                   /\ UNCHANGED <<ws_queue, submitted>>
              ELSE /\ only_results' = Append(only_results, "Ok")
                   /\ ws_queue' = Enqueue(ws_queue, t)
                   /\ submitted' = Append(submitted, t)
    /\ UNCHANGED <<wire, writer, reader, published, next_id, nframes, pc, token, rx,
                   result, api_detail>>
    /\ UNCHANGED <<resolutions, orphaned, elapsed, pendingAtClose, waitingAtClose,
                   issuedAfterClose, illShaped, undecoded>>
    /\ UNCHANGED discAll

\* Response::has_errors
HasErrors(e) == e.some /\ Len(e.list) > 0

\* Mutant of ErrorMessage: the last entry's detail.
ErrorMessage_Last(e) == e.list[Len(e.list)]

\* Response::error_message, for a Response that has errors: e.first().detail
ErrorMessage(e) == e.list[1]

\* timeout(REQUEST_TIMEOUT, rx) polls rx first: a delivered response wins; it
\* is returned as Ok unless it has errors.
RecvResponse(c) ==
    /\ pc[c] = "waiting"
    /\ rx[c].st = "value"
    /\ pc' = [pc EXCEPT ![c] = "done"]
    /\ result' = [result EXCEPT ![c] = IF HasErrors(rx[c].errors) THEN "ApiError" ELSE "Ok"]
    /\ api_detail' = [api_detail EXCEPT ![c] =
                         IF HasErrors(rx[c].errors) THEN ErrorMessage(rx[c].errors)
                                                    ELSE NoDetail]
    /\ UNCHANGED <<pending_requests, ws_queue, wire, writer, reader, published,
                   next_id, nframes, token, rx, only_results>>
    /\ UNCHANGED connHist
    /\ UNCHANGED discAll

\* Ok(Err(_)): the sender was dropped without sending.
RecvClosed(c) ==
    /\ pc[c] = "waiting"
    /\ rx[c].st = "closed"
    /\ pc' = [pc EXCEPT ![c] = "done"]
    /\ result' = [result EXCEPT ![c] = "ConnectionClosed"]
    /\ rx' = [rx EXCEPT ![c].st = "dropped"]
    /\ UNCHANGED <<pending_requests, ws_queue, wire, writer, reader, published,
                   next_id, nframes, token, api_detail, only_results>>
    /\ UNCHANGED connHist
    /\ UNCHANGED discAll

\* Mutant of ElapsedReady: the deadline is looked at before the receiver.
ElapsedReady_TimerFirst(c) == rx[c].st \in {"open", "value"}

\* The poll order of timeout(): Elapsed only when rx has nothing to give.
ElapsedReady(c) == rx[c].st = "open"

\* Err(Elapsed): the await is over and rx is dropped with the timeout future;
\* the call goes on to await the lock.
Elapse(c) ==
    /\ pc[c] = "waiting"
    /\ ElapsedReady(c)
    /\ pc' = [pc EXCEPT ![c] = "timedout"]
    /\ rx' = [rx EXCEPT ![c].st = "dropped"]
    /\ elapsed' = elapsed \cup {c}
    /\ UNCHANGED <<pending_requests, ws_queue, wire, writer, reader, published,
                   next_id, nframes, token, result, api_detail, only_results>>
    /\ UNCHANGED <<resolutions, orphaned, pendingAtClose, waitingAtClose,
                   issuedAfterClose, illShaped, submitted, undecoded>>
    /\ UNCHANGED discAll

\* Mutant of TimeoutTable: the timeout arm forgets its entry.
TimeoutTable_Keep(c) == pending_requests

\* The table after the timed-out call's cleanup.
TimeoutTable(c) == MapRemove(pending_requests, token[c])

\* Timeout arm, under the lock: remove the own entry, return Timeout.
TimeoutCleanup(c) ==
    /\ pc[c] = "timedout"
    /\ pending_requests' = TimeoutTable(c)
    /\ pc' = [pc EXCEPT ![c] = "done"]
    /\ result' = [result EXCEPT ![c] = "Timeout"]
    /\ UNCHANGED <<ws_queue, wire, writer, reader, published, next_id, nframes,
                   token, rx, api_detail, only_results>>
    /\ UNCHANGED connHist
    /\ UNCHANGED discAll

\* oneshot::Sender::send: succeeds unless the receiver is gone.
OneshotSend(r, resp) ==
    IF r.st = "dropped" THEN r
    ELSE [st |-> "value", id |-> resp.id, errors |-> resp.errors]

\* Mutant of Lookup: any pending entry is taken, whatever the frame's id.
Lookup_AnyEntry(id) ==
    IF DOMAIN pending_requests # {}
    THEN {pending_requests[CHOOSE t \in DOMAIN pending_requests : TRUE]}
    ELSE {}

\* The entry handle_message takes for a response (pending_requests.remove).
Lookup(id) == IF id \in DOMAIN pending_requests THEN {pending_requests[id]} ELSE {}

\* Mutant of AfterLookup: get() in place of remove().
AfterLookup_Get(id) == pending_requests

\* The table handle_message leaves behind.
AfterLookup(id) == MapRemove(pending_requests, id)

\* Mutant of ParseStateUpdate: the method and the type tag are not looked at.
ParseStateUpdate_AnyTag(resp) == resp.room

\* parse_state_update returns Some(RoomUpdate): a Notify of type "network"
\* with a room entry in data.state.
ParseStateUpdate(resp) ==
    resp.method = "notify" /\ resp.rtype = "network" /\ resp.room

\* The frame is not a notification by its shape: its type tag is not "network",
\* or data.state has no entry whose data is of type "room".
FailsShapeCheck(resp) == resp.rtype # "network" \/ ~resp.room

\* What `published` keeps of the frame a StateUpdate was parsed from.
Shape(resp) == [id |-> resp.id, method |-> resp.method, rtype |-> resp.rtype,
                room |-> resp.room]

\* Mutant of IsReply: a Notify is taken for a notification whatever its id.
IsReply_UnlessNotify(resp) == Lookup(resp.id) # {} /\ resp.method # "notify"

\* `if let Some(tx) = state.pending_requests.remove(&response.meta.id)`
IsReply(resp) == Lookup(resp.id) # {}

\* handle_message for a decoded Response.
HandleMessage(resp) ==
    IF IsReply(resp)
    THEN LET c == CHOOSE x \in Lookup(resp.id) : TRUE IN
         /\ pending_requests' = AfterLookup(resp.id)
         /\ rx' = [rx EXCEPT ![c] = OneshotSend(rx[c], resp)]
         /\ resolutions' = IF rx[c].st # "dropped" /\ resp.id \in Tokens
                              THEN [resolutions EXCEPT ![resp.id] = @ + 1]
                              ELSE resolutions
         /\ UNCHANGED <<published, orphaned, illShaped>>
    ELSE /\ published' = IF ParseStateUpdate(resp) THEN Append(published, Shape(resp))
                                                    ELSE published
         /\ orphaned' = orphaned \cup ({resp.id} \cap Tokens)
         /\ illShaped' = (illShaped \/ FailsShapeCheck(resp))
         /\ UNCHANGED <<pending_requests, rx, resolutions>>

\* The ids a peer can put on a frame: those it has read off the socket, or its own.
PeerIds == {wire[i] : i \in 1..Len(wire)} \cup {ForeignId}

\* Mutant of ReaderInLoop: the loop goes on after the cleanup.
ReaderInLoop_Always == TRUE

\* The reader task is inside its `while let` loop.
ReaderInLoop == reader = "running"

\* Reader: Ok(Message::Text(text)) that decodes as a Response, one of `frames`.
ReaderTextFrom(frames) ==
    /\ ReaderInLoop
    /\ nframes < MaxFrames
    /\ \E resp \in frames :
        /\ resp.id \in PeerIds
        /\ HandleMessage(resp)
    /\ nframes' = nframes + 1
    /\ UNCHANGED <<ws_queue, wire, writer, reader, next_id, pc, token, result,
                   api_detail, only_results>>
    /\ UNCHANGED <<elapsed, pendingAtClose, waitingAtClose, issuedAfterClose, submitted,
                   undecoded>>
    /\ UNCHANGED discAll

ReaderText == ReaderTextFrom(Responses)

\* Mutant of AfterDecodeError: the error ends the reader's loop.
AfterDecodeError_Break == "closing"

\* `if let Err(e) = Self::handle_message(..)`: the error is logged and the
\* `while let` goes on to the next message.
AfterDecodeError == "running"

\* Reader: a text frame serde_json cannot decode as a Response: handle_message
\* returns Err at its `?`, before it takes the lock.
ReaderUndecodable ==
    /\ ReaderInLoop
    /\ nframes < MaxFrames
    /\ nframes' = nframes + 1
    /\ undecoded' = undecoded \cup {nframes + 1}
    /\ reader' = AfterDecodeError
    /\ UNCHANGED <<pending_requests, ws_queue, wire, writer, published,
                   next_id, pc, token, rx, result, api_detail, only_results>>
    /\ UNCHANGED <<resolutions, orphaned, elapsed, pendingAtClose, waitingAtClose,
                   issuedAfterClose, illShaped, submitted>>
    /\ UNCHANGED discAll

\* Reader: a message of another kind (Binary, Ping, Pong, Frame): `_ => {}`.
ReaderIgnored ==
    /\ ReaderInLoop
    /\ nframes < MaxFrames
    /\ nframes' = nframes + 1
    /\ UNCHANGED <<pending_requests, ws_queue, wire, writer, reader, published,
                   next_id, pc, token, rx, result, api_detail, only_results>>
    /\ UNCHANGED connHist
    /\ UNCHANGED discAll

\* Reader: Message::Close, a transport error, or the end of the stream: break.
ReaderBreak ==
    /\ reader = "running"
    /\ reader' = "closing"
    /\ UNCHANGED <<pending_requests, ws_queue, wire, writer, published, next_id,
                   nframes, pc, token, rx, result, api_detail, only_results>>
    /\ UNCHANGED connHist
    /\ UNCHANGED discAll

\* Mutant of DropSenders: the senders are kept alive (moved out, not dropped).
DropSenders_Leak(held) == rx

\* What dropping the table's senders does to the receivers.
DropSenders(held) ==
    [c \in Calls |-> IF c \in held /\ rx[c].st = "open"
                        THEN [rx[c] EXCEPT !.st = "closed"] ELSE rx[c]]

\* Reader, after the loop: under the lock, pending_requests.clear().
ReaderCleanup ==
    /\ reader = "closing"
    /\ LET held == {pending_requests[t] : t \in DOMAIN pending_requests} IN
        /\ rx' = DropSenders(held)
        /\ pendingAtClose' = pendingAtClose \cup held
        /\ waitingAtClose' = waitingAtClose \cup {c \in held : pc[c] = "waiting"}
    /\ pending_requests' = <<>>
    /\ reader' = "exited"
    /\ UNCHANGED <<ws_queue, wire, writer, published, next_id, nframes, pc, token,
                   result, api_detail, only_results>>
    /\ UNCHANGED <<resolutions, orphaned, elapsed, issuedAfterClose, illShaped,
                   submitted, undecoded>>
    /\ UNCHANGED discAll

\* Writer task: take the next frame off ws_rx and write it to the socket.
WriterSend ==
    /\ writer = "running"
    /\ ws_queue # <<>>
    /\ wire' = Append(wire, Head(ws_queue))
    /\ ws_queue' = Tail(ws_queue)
    /\ UNCHANGED <<pending_requests, writer, reader, published, next_id, nframes,
                   pc, token, rx, result, api_detail, only_results>>
    /\ UNCHANGED connHist
    /\ UNCHANGED discAll

\* Writer task: write.send fails; the task ends and ws_rx is dropped with it.
WriterFail ==
    /\ writer = "running"
    /\ ws_queue # <<>>
    /\ writer' = "stopped"
    /\ ws_queue' = <<>>
    /\ UNCHANGED <<pending_requests, wire, reader, published, next_id, nframes,
                   pc, token, rx, result, api_detail, only_results>>
    /\ UNCHANGED connHist
    /\ UNCHANGED discAll

\* What a call does after its critical section.
CallStep(c) ==
    \/ RecvResponse(c)
    \/ RecvClosed(c)
    \/ Elapse(c)
    \/ TimeoutCleanup(c)

ConnNext ==
    \/ \E c \in Calls : SendRequest(c)
    \/ \E c \in Calls : RecvResponse(c)
    \/ \E c \in Calls : RecvClosed(c)
    \/ \E c \in Calls : Elapse(c)
    \/ \E c \in Calls : TimeoutCleanup(c)
    \/ ReaderText
    \/ ReaderIgnored
    \/ ReaderBreak
    \/ ReaderCleanup
    \/ WriterSend
    \/ WriterFail

\* send_request and send_only callers on a connection whose peer answers
\* Reads and pushes room notifications; no request times out.
SendNext ==
    \/ \E c \in Calls : SendRequest(c)
    \/ SendOnly
    \/ \E c \in Calls : RecvResponse(c)
    \/ \E c \in Calls : RecvClosed(c)
    \/ ReaderTextFrom(PlainResponses)
    \/ ReaderBreak
    \/ ReaderCleanup
    \/ WriterSend
    \/ WriterFail

\* A connection whose peer also sends text that is no Response; no request
\* times out and no write fails.
DecodeNext ==
    \/ \E c \in Calls : SendRequest(c)
    \/ \E c \in Calls : RecvResponse(c)
    \/ \E c \in Calls : RecvClosed(c)
    \/ ReaderTextFrom(PlainResponses)
    \/ ReaderUndecodable
    \/ ReaderBreak
    \/ ReaderCleanup
    \/ WriterSend

\* ReplySpec looks at one send_request.
OneCall(c) == c = 1

\* One send_request on a connection whose peer answers with any errors value.
ReplyNext ==
    \/ \E c \in Calls : SendRequest(c) /\ OneCall(c)
    \/ \E c \in Calls : RecvResponse(c)
    \/ \E c \in Calls : Elapse(c)
    \/ \E c \in Calls : TimeoutCleanup(c)
    \/ ReaderTextFrom(ErrorResponses)
    \/ WriterSend

\* -------------------------------------------------------------- Discovery

Gens == 1..MaxStarts
\* Option::None in stop_tx and task_handle.
NoGen == 0
Addrs == 1..MaxAddrs
MAX_BACKOFF == 60

\* The suspension points of the spawned loop.
Waits == {"sleep", "connecting", "sending", "waitreply", "proc_connect",
          "proc_request", "closing"}

\* What the discovery service can answer: a transport error, an envelope with
\* a non-empty errors list, text that is no Response, a Response without a
\* usable address list, a Close (or the end of the stream, or another kind of
\* message); "ips" answers are drawn with AddrLists.
ReplyKinds == {"wserr", "errors", "malformed", "noaddrs", "closed"}

\* parse_speaker_ips: the non-empty address lists, in the order of the reply.
AddrLists == {<<a>> : a \in Addrs} \cup
             {l \in {<<a, b>> : a \in Addrs, b \in Addrs} : l[1] # l[2]}

RoomIds == 1..MaxRooms

\* The tasks that use the locks: forwarders, the loop, callers of rooms() and
\* of the Room accessors.
Tasks == 1..MaxTasks
\* The entity registry lock; the state lock of a Room goes by the room's id.
RoomsLock == 0
Locks == {RoomsLock} \cup RoomIds
\* What a task does with the locks: apply an update to a registered room,
\* insert a scanned room, read the registry, read or write one Room's state.
LockUses == {"update", "scan", "snapshot", "accessor"}
\* A task that is not using a lock.
Idle == [plan |-> <<>>, n |-> 0, rel |-> FALSE]
\* A payload whose "id" is missing or no UUID.
NoId == 0
\* The entity states payloads carry (RoomState, as parse_room_state_from_json builds it).
Vals == 1..MaxVals
\* A payload parse_room_state_from_json rejects (no name, gain or mute).
BadBody == 0

\* StateUpdate::RoomUpdate(json): the embedded id and the rest of the payload.
Updates == [id : RoomIds \cup {NoId}, body : Vals \cup {BadBody}]

\* What parse_rooms_from_network_data returns for a network state: the rooms
\* that parse, by id (entries that are no room or do not parse are skipped).
ScanReplies == UNION {[S -> Vals] : S \in SUBSET RoomIds}

\* All specifications but SnapSpec let every device answer with the same
\* network state: the first room, in its first state.
PlainReplies == {[id \in {1} |-> 1]}

\* No rooms() call has returned yet.
NoSnap == [taken |-> FALSE, view |-> <<>>]

DiscInit ==
    /\ stop_tx = NoGen
    /\ task_handle = NoGen
    /\ ngen = 0
    /\ api_pc = "idle"
    /\ joining = NoGen
    /\ speakers = {}
    /\ rooms = <<>>
    /\ forwarders = [a \in Addrs |-> 0]
    /\ links = [a \in Addrs |-> 0]
    /\ inbox = [a \in Addrs |-> <<>>]
    /\ events = [id \in RoomIds |-> 0]
    /\ snap = NoSnap
    /\ nnotes = 0
    /\ unseen = {}
    /\ fwd = [a \in Addrs |-> <<>>]
    /\ nested = {}
    /\ late = {}
    /\ closed = {}
    /\ announced = [id \in RoomIds |-> 0]
    /\ recvErr = {}
    /\ locking = [t \in Tasks |-> Idle]
    /\ lpc = [g \in Gens |-> "none"]
    /\ backoff = [g \in Gens |-> 0]
    /\ stop_rx = [g \in Gens |-> "unsubscribed"]
    /\ inner_rx = [g \in Gens |-> "none"]
    /\ todo = [g \in Gens |-> <<>>]
    /\ kind = [g \in Gens |-> "none"]
    /\ stopSent = [g \in Gens |-> FALSE]
    /\ fails = [g \in Gens |-> 0]
    /\ skipped = [g \in Gens |-> {}]
    /\ idleStops = 0

Min(a, b) == IF a <= b THEN a ELSE b
Max(a, b) == IF a >= b THEN a ELSE b

\* ---- start() and stop()

\* broadcast::Sender::send: a receiver gets the value only if it subscribed
\* before the send.
Signal(r) == IF r = "empty" THEN "signal" ELSE r

\* Mutant of Take: the Option is read and left in place.
Take_Peek(opt) == opt

\* Option::take leaves None behind.
Take(opt) == NoGen

\* stop(), first half: take stop_tx and send on it.
SendStop ==
    /\ stop_tx' = Take(stop_tx)
    /\ IF stop_tx = NoGen
          THEN UNCHANGED <<stop_rx, inner_rx, stopSent>>
          ELSE /\ stop_rx' = [stop_rx EXCEPT ![stop_tx] = Signal(@)]
               /\ inner_rx' = [inner_rx EXCEPT ![stop_tx] = Signal(@)]
               /\ stopSent' = [stopSent EXCEPT ![stop_tx] = TRUE]

\* Mutant of LoopRegistries: start() gives the loop new, empty maps.
LoopRegistries_Fresh == <<{}, <<>>>>

\* self.speakers.clone() and self.rooms.clone() clone the Arcs: the spawned
\* loop works on the maps the Discovery already has.
LoopRegistries == <<speakers, rooms>>

\* start(), second half: a fresh channel, the loop spawned on it, its handle kept.
\* The spawned task has not been polled yet.
Spawn ==
    /\ ngen' = ngen + 1
    /\ task_handle' = ngen + 1
    /\ lpc' = [lpc EXCEPT ![ngen + 1] = "spawned"]
    /\ speakers' = LoopRegistries[1]
    /\ rooms' = LoopRegistries[2]

\* stop(): signal, then await the JoinHandle (for at most 500 ms) if there is one.
CallStop ==
    /\ api_pc = "idle"
    /\ SendStop
    /\ IF task_handle = NoGen
          THEN UNCHANGED <<api_pc, joining, task_handle>>
          ELSE /\ api_pc' = "stop_join"
               /\ joining' = task_handle
               /\ task_handle' = Take(task_handle)
    /\ idleStops' = IF stop_tx = NoGen /\ task_handle = NoGen
                       THEN Min(idleStops + 1, MaxIdleStops) ELSE idleStops
    /\ UNCHANGED <<ngen, speakers, rooms, forwarders, lpc, backoff, todo, kind>>
    /\ UNCHANGED <<fails, skipped>>
    /\ UNCHANGED <<connAll, links, noteVars>>

\* start() when a loop is registered: stop() first, as far as its await.
CallStartJoin ==
    /\ api_pc = "idle"
    /\ ngen < MaxStarts
    /\ task_handle # NoGen
    /\ SendStop
    /\ api_pc' = "start_join"
    /\ joining' = task_handle
    /\ task_handle' = Take(task_handle)
    /\ UNCHANGED <<ngen, speakers, rooms, forwarders, lpc, backoff, todo, kind>>
    /\ UNCHANGED <<fails, skipped, idleStops>>
    /\ UNCHANGED <<connAll, links, noteVars>>

\* start() when no loop is registered: stop() has nothing to await.
CallStartFresh ==
    /\ api_pc = "idle"
    /\ ngen < MaxStarts
    /\ task_handle = NoGen
    /\ Spawn
    /\ stop_tx' = ngen + 1
    /\ IF stop_tx = NoGen
          THEN UNCHANGED <<stop_rx, inner_rx, stopSent>>
          ELSE /\ stop_rx' = [stop_rx EXCEPT ![stop_tx] = Signal(@)]
               /\ inner_rx' = [inner_rx EXCEPT ![stop_tx] = Signal(@)]
               /\ stopSent' = [stopSent EXCEPT ![stop_tx] = TRUE]
    /\ UNCHANGED <<api_pc, joining, forwarders, backoff, todo, kind>>
    /\ UNCHANGED <<fails, skipped, idleStops>>
    /\ UNCHANGED <<connAll, links, noteVars>>

\* What follows the await of the JoinHandle: stop() returns; start() goes on.
AfterJoin ==
    /\ api_pc' = "idle"
    /\ joining' = NoGen
    /\ IF api_pc = "start_join"
          THEN /\ Spawn
               /\ stop_tx' = ngen + 1
          ELSE UNCHANGED <<ngen, task_handle, lpc, stop_tx, speakers, rooms>>
    /\ UNCHANGED <<forwarders, backoff, stop_rx, inner_rx, todo, kind>>
    /\ UNCHANGED discHist
    /\ UNCHANGED <<connAll, links, noteVars>>

\* The awaited loop has exited.
JoinDone ==
    /\ api_pc \in {"stop_join", "start_join"}
    /\ lpc[joining] = "exited"
    /\ AfterJoin

\* 500 ms have passed and the loop has not exited: the handle is dropped, the
\* task keeps running.
JoinTimeout ==
    /\ api_pc \in {"stop_join", "start_join"}
    /\ lpc[joining] # "exited"
    /\ AfterJoin

\* ---- the spawned loop

\* Mutant of After: the stop branch is looked at between cycles only.
After_BetweenCycles(g, p) ==
    IF stop_rx[g] = "signal" /\ p \in {"sleep", "connecting"} THEN "exited" ELSE p

\* select! over stop_rx.recv() and the cycle: when the task is polled with a
\* signal in stop_rx, this poll ends in the break, whatever the cycle did in it.
After(g, p) == IF stop_rx[g] = "signal" THEN "exited" ELSE p

\* The loop's next suspension point is p.
Goto(g, p) == lpc' = [lpc EXCEPT ![g] = After(g, p)]

\* The receiver of the next cycle's stop_tx.subscribe(), if the loop gets there.
FreshInner(g, p) == IF After(g, p) = "connecting" THEN "empty" ELSE "none"

\* Mutant of NextBackoff: the doubling is not capped.
NextBackoff_NoCap(b) == IF b = 0 THEN 1 ELSE b * 2

\* The Err arm: 1 s after 0, then doubled up to MAX_BACKOFF.
NextBackoff(b) == IF b = 0 THEN 1 ELSE Min(b * 2, MAX_BACKOFF)

\* run_discovery_once returned Ok(()): backoff 0, and the next cycle starts at
\* once (no sleep), up to its connect_async.
CycleOk(g) ==
    /\ backoff' = [backoff EXCEPT ![g] = 0]
    /\ fails' = [fails EXCEPT ![g] = 0]
    /\ Goto(g, "connecting")
    /\ inner_rx' = [inner_rx EXCEPT ![g] = FreshInner(g, "connecting")]
    /\ kind' = [kind EXCEPT ![g] = "none"]
    /\ todo' = [todo EXCEPT ![g] = <<>>]
    /\ skipped' = [skipped EXCEPT ![g] = {}]

\* Mutant of AfterErr: the Err arm leaves the loop.
AfterErr_Break == "exited"

\* The Err arm ends the select! and the loop comes round: the next cycle
\* starts with its sleep.
AfterErr == "sleep"

\* run_discovery_once returned Err: backoff raised, and the next cycle starts
\* with its sleep.
CycleErr(g) ==
    /\ backoff' = [backoff EXCEPT ![g] = NextBackoff(@)]
    /\ fails' = [fails EXCEPT ![g] = Min(@ + 1, MaxFails)]
    /\ Goto(g, AfterErr)
    /\ inner_rx' = [inner_rx EXCEPT ![g] = "none"]
    /\ kind' = [kind EXCEPT ![g] = "none"]
    /\ todo' = [todo EXCEPT ![g] = <<>>]
    /\ skipped' = [skipped EXCEPT ![g] = {}]

\* A step inside a cycle, to the suspension point p.
Within(g, p) ==
    /\ Goto(g, p)
    /\ inner_rx' = [inner_rx EXCEPT ![g] = IF After(g, p) = "exited" THEN "none" ELSE @]
    /\ skipped' = [skipped EXCEPT ![g] = IF After(g, p) = "exited" THEN {} ELSE @]
    /\ UNCHANGED <<backoff, fails>>

\* What start() and stop() work on, and the count of the stop() calls that
\* changed none of it.
apiVars == <<stop_tx, task_handle, ngen, api_pc, joining, idleStops>>

\* First poll of the spawned task: backoff 0, stop_rx subscribed, the first
\* cycle begun (no sleep) up to its connect_async.
LoopBegin(g) ==
    /\ lpc[g] = "spawned"
    /\ stop_rx' = [stop_rx EXCEPT ![g] = "empty"]
    /\ inner_rx' = [inner_rx EXCEPT ![g] = "empty"]
    /\ lpc' = [lpc EXCEPT ![g] = "connecting"]
    /\ UNCHANGED <<apiVars, speakers, rooms, forwarders, backoff, todo, kind>>
    /\ UNCHANGED discHist
    /\ UNCHANGED <<connAll, links, noteVars>>

\* stop_rx.recv() is ready: break, dropping the cycle where it is suspended.
LoopStop(g) ==
    /\ lpc[g] \in Waits
    /\ stop_rx[g] = "signal"
    /\ lpc' = [lpc EXCEPT ![g] = "exited"]
    /\ inner_rx' = [inner_rx EXCEPT ![g] = "none"]
    /\ skipped' = [skipped EXCEPT ![g] = {}]
    /\ UNCHANGED <<apiVars, speakers, rooms, forwarders, backoff, stop_rx, todo, kind>>
    /\ UNCHANGED <<stopSent, fails>>
    /\ UNCHANGED <<connAll, links, noteVars>>

\* sleep(backoff) is over: subscribe stop_rx_inner, call run_discovery_once.
SleepElapsed(g) ==
    /\ lpc[g] = "sleep"
    /\ Goto(g, "connecting")
    /\ inner_rx' = [inner_rx EXCEPT ![g] = FreshInner(g, "connecting")]
    /\ UNCHANGED <<apiVars, speakers, rooms, forwarders, backoff, stop_rx, todo, kind>>
    /\ UNCHANGED <<stopSent, fails, skipped>>
    /\ UNCHANGED <<connAll, links, noteVars>>

\* connect_async(DISCOVERY_URL) succeeded; the request is being written.
ConnectOk(g) ==
    /\ lpc[g] = "connecting"
    /\ Within(g, "sending")
    /\ UNCHANGED <<apiVars, speakers, rooms, forwarders, stop_rx, todo, kind>>
    /\ UNCHANGED stopSent
    /\ UNCHANGED <<connAll, links, noteVars>>

\* connect_async(DISCOVERY_URL) failed: the `?` returns Err.
ConnectFail(g) ==
    /\ lpc[g] = "connecting"
    /\ CycleErr(g)
    /\ UNCHANGED <<apiVars, speakers, rooms, forwarders, stop_rx>>
    /\ UNCHANGED stopSent
    /\ UNCHANGED <<connAll, links, noteVars>>

\* write.send(request) done: wait for the reply.
SendOk(g) ==
    /\ lpc[g] = "sending"
    /\ Within(g, "waitreply")
    /\ UNCHANGED <<apiVars, speakers, rooms, forwarders, stop_rx, todo, kind>>
    /\ UNCHANGED stopSent
    /\ UNCHANGED <<connAll, links, noteVars>>

\* write.send(request) failed: the `?` returns Err.
SendFail(g) ==
    /\ lpc[g] = "sending"
    /\ CycleErr(g)
    /\ UNCHANGED <<apiVars, speakers, rooms, forwarders, stop_rx>>
    /\ UNCHANGED stopSent
    /\ UNCHANGED <<connAll, links, noteVars>>

\* The inner select's stop arm: close the socket and return Ok(()).
InnerCancel(g) ==
    /\ lpc[g] = "waitreply"
    /\ inner_rx[g] = "signal"
    /\ kind' = [kind EXCEPT ![g] = "cancelled"]
    /\ Within(g, "closing")
    /\ UNCHANGED <<apiVars, speakers, rooms, forwarders, stop_rx, todo>>
    /\ UNCHANGED stopSent
    /\ UNCHANGED <<connAll, links, noteVars>>

\* A reply that ends the pass without an address list: every kind goes to
\* write.close(); "wserr" then returns Err, the others Ok(()).
ReplyWithout(g) ==
    /\ lpc[g] = "waitreply"
    /\ \E k \in ReplyKinds : kind' = [kind EXCEPT ![g] = k]
    /\ Within(g, "closing")
    /\ UNCHANGED <<apiVars, speakers, rooms, forwarders, stop_rx, todo>>
    /\ UNCHANGED stopSent
    /\ UNCHANGED <<connAll, links, noteVars>>

\* process_speaker's first await for the address at the head of `list`:
\* request_network_state on the registered link, or SpeakerConnection::connect.
AddrWait(list) ==
    IF list = <<>> THEN "closing"
    ELSE IF Head(list) \in speakers THEN "proc_request" ELSE "proc_connect"

\* A reply with a non-empty address list: process_speaker for the first one.
ReplyIps(g) ==
    /\ lpc[g] = "waitreply"
    /\ \E list \in AddrLists :
        /\ todo' = [todo EXCEPT ![g] = list]
        /\ Within(g, AddrWait(list))
    /\ UNCHANGED <<apiVars, speakers, rooms, forwarders, stop_rx, kind>>
    /\ UNCHANGED stopSent
    /\ UNCHANGED <<connAll, links, noteVars>>

\* Mutant of Remaining: an address whose processing failed ends the pass.
Remaining_Abort(list, err) == IF err THEN <<>> ELSE Tail(list)

\* `for speaker_ip in speaker_ips`: the Err of process_speaker is logged, and
\* the iteration moves on to the addresses after the current one either way.
Remaining(list, err) == Tail(list)

\* process_speaker is over for the current address (with Err if `err`): on to
\* the next one, or to the close at the end of the pass.
NextAddr(g, err) ==
    LET rest == Remaining(todo[g], err) IN
    /\ todo' = [todo EXCEPT ![g] = rest]
    /\ kind' = [kind EXCEPT ![g] = IF rest = <<>> THEN "scanned" ELSE @]
    /\ skipped' = [skipped EXCEPT ![g] =
                      IF After(g, AddrWait(rest)) = "exited" THEN {}
                      ELSE IF err THEN @ \cup {Head(todo[g])} ELSE @]
    /\ Goto(g, AddrWait(rest))
    /\ inner_rx' = [inner_rx EXCEPT ![g] =
                       IF After(g, AddrWait(rest)) = "exited" THEN "none" ELSE @]
    /\ UNCHANGED <<backoff, fails>>

\* SpeakerConnection::connect succeeded: the link is inserted into the
\* registry, and request_network_state is sent on it.
SpeakerConnectOk(g) ==
    /\ lpc[g] = "proc_connect"
    /\ speakers' = speakers \cup {Head(todo[g])}
    /\ links' = [links EXCEPT ![Head(todo[g])] = Min(@ + 1, MaxLinks)]
    /\ Within(g, "proc_request")
    /\ UNCHANGED <<apiVars, rooms, forwarders, stop_rx, todo, kind>>
    /\ UNCHANGED stopSent
    /\ UNCHANGED <<connAll, noteVars>>

\* SpeakerConnection::connect failed: logged, next address.
SpeakerConnectFail(g) ==
    /\ lpc[g] = "proc_connect"
    /\ NextAddr(g, TRUE)
    /\ UNCHANGED <<apiVars, speakers, rooms, forwarders, stop_rx>>
    /\ UNCHANGED stopSent
    /\ UNCHANGED <<connAll, links, noteVars>>

\* Mutant of ScanInsert: the registry is rebuilt from the scan.
ScanInsert_Rebuild(reg, reply) == reply

\* `rooms_lock.insert(room.id(), room)` for every parsed room: BTreeMap::insert
\* puts the new Room in, replacing the one registered under that id if any.
ScanInsert(reg, reply) ==
    [id \in (DOMAIN reg) \cup (DOMAIN reply) |->
        IF id \in DOMAIN reply THEN reply[id] ELSE reg[id]]

\* The Room handles of a rooms() result after a scan: a replaced registry
\* entry is a new Room with a state cell of its own, the handle keeps the old.
Unshare(s, reply) ==
    [s EXCEPT !.view = [id \in DOMAIN s.view |->
        IF id \in DOMAIN reply THEN [s.view[id] EXCEPT !.shared = FALSE]
                               ELSE s.view[id]]]

\* tokio::spawn of the forwarder: one more receiver on the link's channel,
\* which sees what is published from now on.
SpawnForwarder(boxes) ==
    IF Len(boxes) < MaxForwarders THEN Append(boxes, <<>>) ELSE boxes

\* The spawned task, suspended in receiver.recv().
SpawnTask(tasks) ==
    IF Len(tasks) < MaxForwarders THEN Append(tasks, "running") ELSE tasks

\* The entity registry lock is held and the state lock of a Room is taken.
RoomsThenState == {<<"rooms", "state">>}

\* request_network_state answered with a state that parses to `reply`: the
\* rooms are inserted (under the registry lock, each under the id that
\* room.id() reads under the Room's state lock), subscribe_state is sent and a
\* forwarder task is spawned on the link.
NetworkStateOk(g, reply) ==
    /\ lpc[g] = "proc_request"
    /\ Head(todo[g]) \notin closed
    /\ rooms' = ScanInsert(rooms, reply)
    /\ snap' = Unshare(snap, reply)
    /\ forwarders' = [forwarders EXCEPT ![Head(todo[g])] = Min(@ + 1, MaxForwarders)]
    /\ inbox' = [inbox EXCEPT ![Head(todo[g])] = SpawnForwarder(@)]
    /\ fwd' = [fwd EXCEPT ![Head(todo[g])] = SpawnTask(@)]
    /\ nested' = IF DOMAIN reply # {} THEN nested \cup RoomsThenState ELSE nested
    /\ unseen' = (DOMAIN rooms) \ (DOMAIN reply)
    /\ NextAddr(g, FALSE)
    /\ UNCHANGED <<apiVars, speakers, stop_rx>>
    /\ UNCHANGED stopSent
    /\ UNCHANGED <<connAll, links, events, nnotes, late, closed, announced, recvErr,
                   locking>>

\* request_network_state failed (closed, timeout, API error, no data) or the
\* state could not be parsed: logged, next address.
NetworkStateErr(g) ==
    /\ lpc[g] = "proc_request"
    /\ NextAddr(g, TRUE)
    /\ UNCHANGED <<apiVars, speakers, rooms, forwarders, stop_rx>>
    /\ UNCHANGED stopSent
    /\ UNCHANGED <<connAll, links, noteVars>>

\* write.close() done: run_discovery_once returns, the loop handles the result.
CloseDone(g) ==
    /\ lpc[g] = "closing"
    /\ IF kind[g] = "wserr" THEN CycleErr(g) ELSE CycleOk(g)
    /\ UNCHANGED <<apiVars, speakers, rooms, forwarders, stop_rx>>
    /\ UNCHANGED stopSent
    /\ UNCHANGED <<connAll, links, noteVars>>

\* ---- the device links' notifications, the forwarders, and rooms()

loopVars == <<lpc, backoff, stop_rx, inner_rx, todo, kind>>

\* stop() has been called and has returned, and every loop that was started
\* has been sent the signal and has exited.
StopComplete ==
    /\ ngen > 0
    /\ api_pc = "idle"
    /\ \A g \in 1..ngen : stopSent[g] /\ lpc[g] = "exited"

\* The receiver holds as many unreceived values as the channel keeps: the
\* next send overwrites the oldest of them.
Overruns(q) == Len(q) >= MaxRetained

\* Mutant of Deliver: a full channel refuses the new value.
Deliver_DropNewest(q, u) == IF Overruns(q) THEN q ELSE Append(q, u)

\* broadcast::Sender::send, as one receiver sees it: the value goes behind the
\* unreceived ones, the oldest of which is lost if the channel is full.
Deliver(q, u) == IF Overruns(q) THEN Append(Tail(q), u) ELSE Append(q, u)

\* The reader of the link to address a publishes a RoomUpdate (handle_message
\* found no pending entry, parse_state_update a room): broadcast's send hands
\* it to every receiver subscribed by now, and to nobody if there is none.
Publish(a, u) ==
    /\ a \in speakers
    /\ a \notin closed
    /\ nnotes < MaxNotes
    /\ nnotes' = nnotes + 1
    /\ inbox' = [inbox EXCEPT ![a] =
                    [k \in DOMAIN @ |-> IF fwd[a][k] = "ended" THEN @[k]
                                                                ELSE Deliver(@[k], u)]]
    /\ fwd' = [fwd EXCEPT ![a] =
                  [k \in DOMAIN @ |-> IF @[k] = "running" /\ Overruns(inbox[a][k])
                                         THEN "lagged" ELSE @[k]]]
    /\ late' = IF StopComplete THEN late \cup {nnotes + 1} ELSE late
    /\ UNCHANGED <<apiVars, loopVars, speakers, rooms, forwarders, links, events, snap,
                   unseen, nested, closed, announced, recvErr,
                   locking>>
    /\ UNCHANGED discHist
    /\ UNCHANGED connAll

\* Mutant of Applies: the payload is not parsed before it is stored.
Applies_AnyBody(u) == u.id # NoId

\* process_state_update goes through with the payload: it has a valid id and
\* parse_room_state_from_json accepts it.
Applies(u) == u.id # NoId /\ u.body # BadBody

\* Mutant of ApplyUpdate: the registry is left with the updated room only.
ApplyUpdate_Only(reg, u) == IF Applies(u) THEN [id \in {u.id} |-> u.body] ELSE reg

\* process_state_update on the registry: a known id has the state of its Room
\* replaced (update_from_json), an unknown one gets a new Room inserted; a
\* payload without valid id or that does not parse changes nothing.
ApplyUpdate(reg, u) == IF Applies(u) THEN MapInsert(reg, u.id, u.body) ELSE reg

\* update_from_json writes the state cell of the registered Room: a handle
\* from rooms() that shares the cell shows the new state.
Observe(s, u) ==
    IF Applies(u) /\ u.id \in DOMAIN s.view /\ s.view[u.id].shared
    THEN [s EXCEPT !.view[u.id].now = u.body]
    ELSE s

\* Which RoomUpdate (1st, 2nd, ..) is at the head of the k-th receiver of
\* address a: a receiver holds the latest ones published (one device).
HeadIndex(a, k) == nnotes - Len(inbox[a][k]) + 1

\* The k-th forwarder of address a takes the next RoomUpdate off its receiver
\* and runs process_state_update, all under the registry lock; update_tx.send
\* follows the write.
Forward(a, k) ==
    /\ k \in DOMAIN inbox[a]
    /\ fwd[a][k] = "running"
    /\ inbox[a][k] # <<>>
    /\ LET u == Head(inbox[a][k]) IN
        /\ rooms' = ApplyUpdate(rooms, u)
        /\ snap' = Observe(snap, u)
        /\ events' = IF Applies(u) THEN [events EXCEPT ![u.id] = @ + 1] ELSE events
        /\ nested' = IF Applies(u) /\ u.id \in DOMAIN rooms
                         THEN nested \cup RoomsThenState ELSE nested
        /\ announced' = IF Applies(u)
                            THEN [announced EXCEPT ![u.id] = Max(@, HeadIndex(a, k))]
                            ELSE announced
    /\ inbox' = [inbox EXCEPT ![a][k] = Tail(@)]
    /\ UNCHANGED <<apiVars, loopVars, speakers, forwarders, links, nnotes, unseen, fwd,
                   late, closed, recvErr,
                   locking>>
    /\ UNCHANGED discHist
    /\ UNCHANGED connAll

\* Mutant of RecvError: a lagged receiver is reported as a closed connection.
RecvError_Closed(e) == "ConnectionClosed"

\* StateReceiver::recv and try_recv map the channel's errors: Closed to
\* ConnectionClosed, Lagged(n) to ChannelError.
RecvError(e) == IF e = "Closed" THEN "ConnectionClosed" ELSE "ChannelError"

\* The connection of the link to address a closes: its reader task leaves its
\* loop and ends. The Connection, and with it the sender of its notification
\* channel, stays in the SpeakerConnection the registry and the forwarders hold.
LinkClose(a) ==
    /\ a \in speakers
    /\ a \notin closed
    /\ closed' = closed \cup {a}
    /\ UNCHANGED <<apiVars, loopVars, speakers, rooms, forwarders, links, inbox, events,
                   snap, nnotes, unseen, fwd, nested, late, announced, recvErr,
                   locking>>
    /\ UNCHANGED discHist
    /\ UNCHANGED connAll

\* The k-th forwarder of address a is polled with its receiver lagged:
\* StateReceiver::recv turns RecvError::Lagged into Err, which ends
\* `while let Ok(update) = receiver.recv().await` and the task, and the
\* receiver is dropped with it.
ForwardLagged(a, k) ==
    /\ k \in DOMAIN inbox[a]
    /\ fwd[a][k] = "lagged"
    /\ fwd' = [fwd EXCEPT ![a][k] = "ended"]
    /\ inbox' = [inbox EXCEPT ![a][k] = <<>>]
    /\ recvErr' = recvErr \cup {RecvError("Lagged")}
    /\ UNCHANGED <<apiVars, loopVars, speakers, rooms, forwarders, links, events, snap,
                   nnotes, unseen, nested, late, closed, announced, locking>>
    /\ UNCHANGED discHist
    /\ UNCHANGED connAll

\* rooms(): under the registry lock, rooms.values().cloned().collect(). Room's
\* derived Clone clones its two Arcs: each handle in the Vec shares the state
\* cell of the registered Room.
RoomsCall ==
    /\ ~snap.taken
    /\ snap' = [taken |-> TRUE,
                view |-> [id \in DOMAIN rooms |->
                            [seen |-> rooms[id], now |-> rooms[id], shared |-> TRUE]]]
    /\ UNCHANGED <<apiVars, loopVars, speakers, rooms, forwarders, links, inbox,
                   events, nnotes, unseen, fwd, nested, late, closed, announced,
                   recvErr,
                   locking>>
    /\ UNCHANGED discHist
    /\ UNCHANGED connAll

\* ---- the locks

\* Mutant of LockPlan: a Room accessor looks its room up in the registry
\* while it holds the state lock.
LockPlan_StateFirst(use, id) ==
    IF use = "accessor" THEN <<id, RoomsLock>>
    ELSE IF use = "snapshot" THEN <<RoomsLock>> ELSE <<RoomsLock, id>>

\* The locks a task takes, in the order it takes them (each is held until
\* those taken after it are released). process_state_update: the registry
\* lock, then update_from_json takes the state lock; process_speaker: the
\* registry lock, then room.id() takes the state lock; rooms(), room_count(),
\* clear_rooms(): the registry lock; Room accessors: the state lock.
LockPlan(use, id) ==
    IF use = "accessor" THEN <<id>>
    ELSE IF use = "snapshot" THEN <<RoomsLock>> ELSE <<RoomsLock, id>>

\* The locks task t holds.
HeldBy(t) == {locking[t].plan[i] : i \in 1..locking[t].n}

\* Mutex::lock returns: nobody holds the lock.
Free(l) == \A t \in Tasks : l \notin HeldBy(t)

\* Task t is in Mutex::lock for the next lock of its plan.
Wants(t) ==
    /\ ~locking[t].rel
    /\ locking[t].n < Len(locking[t].plan)

Wanted(t) == locking[t].plan[locking[t].n + 1]

otherVars == <<apiVars, loopVars, speakers, rooms, forwarders, links, inbox, events,
               snap, nnotes, unseen, fwd, nested, late, closed, announced, recvErr>>

\* Task t sets out to use the locks for room id.
LockBegin(t, use, id) ==
    /\ locking[t] = Idle
    /\ locking' = [locking EXCEPT ![t] = [plan |-> LockPlan(use, id), n |-> 0,
                                          rel |-> FALSE]]
    /\ UNCHANGED otherVars
    /\ UNCHANGED discHist
    /\ UNCHANGED connAll

\* Mutex::lock().unwrap() returns the guard.
LockAcquire(t) ==
    /\ Wants(t)
    /\ Free(Wanted(t))
    /\ locking' = [locking EXCEPT ![t].n = @ + 1]
    /\ UNCHANGED otherVars
    /\ UNCHANGED discHist
    /\ UNCHANGED connAll

\* The guard taken last goes out of scope; after the last one the task is done.
LockRelease(t) ==
    /\ locking[t].n > 0
    /\ locking[t].rel \/ locking[t].n = Len(locking[t].plan)
    /\ locking' = [locking EXCEPT ![t] =
                      IF locking[t].n = 1 THEN Idle
                      ELSE [@ EXCEPT !.n = @ - 1, !.rel = TRUE]]
    /\ UNCHANGED otherVars
    /\ UNCHANGED discHist
    /\ UNCHANGED connAll

\* The tasks and callers that use the registry lock and the state locks.
LockNext ==
    \/ \E t \in Tasks : \E use \in LockUses : \E id \in RoomIds : LockBegin(t, use, id)
    \/ \E t \in Tasks : LockAcquire(t)
    \/ \E t \in Tasks : LockRelease(t)

\* Every step of the task spawned by the g-th start().
LoopNext(g) ==
    \/ LoopBegin(g)
    \/ LoopStop(g)
    \/ SleepElapsed(g)
    \/ ConnectOk(g)
    \/ ConnectFail(g)
    \/ SendOk(g)
    \/ SendFail(g)
    \/ InnerCancel(g)
    \/ ReplyWithout(g)
    \/ ReplyIps(g)
    \/ SpeakerConnectOk(g)
    \/ SpeakerConnectFail(g)
    \/ \E reply \in ScanReplies : NetworkStateOk(g, reply)
    \/ NetworkStateErr(g)
    \/ CloseDone(g)

\* DiscSpec bounds the consecutive failures of a loop.
Retry(g) == fails'[g] <= MaxRetry

DiscNext ==
    \/ CallStop
    \/ CallStartJoin
    \/ CallStartFresh
    \/ JoinDone
    \/ JoinTimeout
    \/ \E g \in Gens : LoopBegin(g)
    \/ \E g \in Gens : LoopStop(g)
    \/ \E g \in Gens : SleepElapsed(g)
    \/ \E g \in Gens : ConnectOk(g)
    \/ \E g \in Gens : ConnectFail(g) /\ Retry(g)
    \/ \E g \in Gens : SendOk(g)
    \/ \E g \in Gens : SendFail(g) /\ Retry(g)
    \/ \E g \in Gens : InnerCancel(g)
    \/ \E g \in Gens : ReplyWithout(g)
    \/ \E g \in Gens : ReplyIps(g)
    \/ \E g \in Gens : SpeakerConnectOk(g)
    \/ \E g \in Gens : SpeakerConnectFail(g)
    \/ \E g \in Gens : \E reply \in PlainReplies : NetworkStateOk(g, reply)
    \/ \E g \in Gens : NetworkStateErr(g)
    \/ \E g \in Gens : CloseDone(g) /\ Retry(g)

\* One start(), its loop, and stop() called once, at any point: no restart.
StopNext ==
    \/ CallStartFresh /\ ngen = 0
    \/ CallStop /\ stop_tx # NoGen
    \/ JoinDone
    \/ JoinTimeout
    \/ \E g \in Gens : LoopBegin(g)
    \/ \E g \in Gens : LoopStop(g)
    \/ \E g \in Gens : SleepElapsed(g)
    \/ \E g \in Gens : ConnectOk(g)
    \/ \E g \in Gens : ConnectFail(g) /\ Retry(g)
    \/ \E g \in Gens : SendOk(g)
    \/ \E g \in Gens : SendFail(g) /\ Retry(g)
    \/ \E g \in Gens : InnerCancel(g)
    \/ \E g \in Gens : ReplyWithout(g)
    \/ \E g \in Gens : ReplyIps(g)
    \/ \E g \in Gens : SpeakerConnectOk(g)
    \/ \E g \in Gens : SpeakerConnectFail(g)
    \/ \E g \in Gens : \E reply \in PlainReplies : NetworkStateOk(g, reply)
    \/ \E g \in Gens : NetworkStateErr(g)
    \/ \E g \in Gens : CloseDone(g) /\ Retry(g)

\* One start(), and the loop left to run: no stop(), no restart.
CycleNext ==
    \/ CallStartFresh
    \/ \E g \in Gens : LoopBegin(g)
    \/ \E g \in Gens : SleepElapsed(g)
    \/ \E g \in Gens : ConnectOk(g)
    \/ \E g \in Gens : ConnectFail(g)
    \/ \E g \in Gens : SendOk(g)
    \/ \E g \in Gens : SendFail(g)
    \/ \E g \in Gens : ReplyWithout(g)
    \/ \E g \in Gens : ReplyIps(g)
    \/ \E g \in Gens : SpeakerConnectOk(g)
    \/ \E g \in Gens : SpeakerConnectFail(g)
    \/ \E g \in Gens : \E reply \in PlainReplies : NetworkStateOk(g, reply)
    \/ \E g \in Gens : NetworkStateErr(g)
    \/ \E g \in Gens : CloseDone(g)

\* NoteSpec looks at one Device Link: the service reports the first address.
OneDevice(g) == todo'[g] = <<1>>

\* NoteSpec and SnapSpec let the links publish so few RoomUpdates that no
\* receiver falls behind.
Quiet == nnotes' <= MaxQuietNotes

\* One start(), its loop scanning a device that answers, the link publishing
\* RoomUpdates, the forwarders applying them, and stop() called once, at any
\* point.
NoteNext ==
    \/ CallStartFresh /\ ngen = 0
    \/ CallStop /\ stop_tx # NoGen
    \/ JoinDone
    \/ JoinTimeout
    \/ \E g \in Gens : LoopBegin(g)
    \/ \E g \in Gens : LoopStop(g)
    \/ \E g \in Gens : ConnectOk(g)
    \/ \E g \in Gens : SendOk(g)
    \/ \E g \in Gens : InnerCancel(g)
    \/ \E g \in Gens : ReplyIps(g) /\ OneDevice(g)
    \/ \E g \in Gens : SpeakerConnectOk(g)
    \/ \E g \in Gens : \E reply \in PlainReplies : NetworkStateOk(g, reply)
    \/ \E g \in Gens : NetworkStateErr(g)
    \/ \E g \in Gens : CloseDone(g)
    \/ \E a \in Addrs : \E u \in Updates : Publish(a, u) /\ Quiet
    \/ \E a \in Addrs : \E k \in 1..MaxForwarders : Forward(a, k)

\* One start(), its loop scanning a device whose network state varies, the
\* link publishing RoomUpdates, the forwarders applying them, and one rooms()
\* call at any point.
SnapNext ==
    \/ CallStartFresh /\ ngen = 0
    \/ \E g \in Gens : LoopBegin(g)
    \/ \E g \in Gens : ConnectOk(g)
    \/ \E g \in Gens : SendOk(g)
    \/ \E g \in Gens : ReplyIps(g) /\ OneDevice(g)
    \/ \E g \in Gens : SpeakerConnectOk(g)
    \/ \E g \in Gens : \E reply \in ScanReplies : NetworkStateOk(g, reply)
    \/ \E g \in Gens : NetworkStateErr(g)
    \/ \E g \in Gens : CloseDone(g)
    \/ \E a \in Addrs : \E u \in Updates : Publish(a, u) /\ Quiet
    \/ \E a \in Addrs : \E k \in 1..MaxForwarders : Forward(a, k)
    \/ RoomsCall

\* One start(), its loop scanning a device whose link's connection may close.
LinkNext ==
    \/ CallStartFresh /\ ngen = 0
    \/ \E g \in Gens : LoopBegin(g)
    \/ \E g \in Gens : ConnectOk(g)
    \/ \E g \in Gens : SendOk(g)
    \/ \E g \in Gens : ReplyIps(g) /\ OneDevice(g)
    \/ \E g \in Gens : SpeakerConnectOk(g)
    \/ \E g \in Gens : \E reply \in PlainReplies : NetworkStateOk(g, reply)
    \/ \E g \in Gens : NetworkStateErr(g)
    \/ \E g \in Gens : CloseDone(g)
    \/ \E a \in Addrs : LinkClose(a)
    \/ \E a \in Addrs : \E u \in Updates : Publish(a, u) /\ Quiet
    \/ \E a \in Addrs : \E k \in 1..MaxForwarders : Forward(a, k)

\* LagSpec: the device notifies about the rooms the registry has.
KnownRoom(u) == u.id \in DOMAIN rooms

\* One start(), its loop scanning a device that answers, the link publishing
\* RoomUpdates faster than the forwarders take them.
LagNext ==
    \/ CallStartFresh /\ ngen = 0
    \/ \E g \in Gens : LoopBegin(g)
    \/ \E g \in Gens : ConnectOk(g)
    \/ \E g \in Gens : SendOk(g)
    \/ \E g \in Gens : ReplyIps(g) /\ OneDevice(g)
    \/ \E g \in Gens : SpeakerConnectOk(g)
    \/ \E g \in Gens : \E reply \in PlainReplies : NetworkStateOk(g, reply)
    \/ \E g \in Gens : CloseDone(g)
    \/ \E a \in Addrs : \E u \in Updates : Publish(a, u) /\ KnownRoom(u)
    \/ \E a \in Addrs : \E k \in 1..MaxForwarders : Forward(a, k)
    \/ \E a \in Addrs : \E k \in 1..MaxForwarders : ForwardLagged(a, k)

\* start() and stop() called in any order, the loops scanning one device that
\* answers.
RestartNext ==
    \/ CallStop
    \/ CallStartJoin
    \/ CallStartFresh
    \/ JoinDone
    \/ JoinTimeout
    \/ \E g \in Gens : LoopBegin(g)
    \/ \E g \in Gens : LoopStop(g)
    \/ \E g \in Gens : ConnectOk(g)
    \/ \E g \in Gens : SendOk(g)
    \/ \E g \in Gens : InnerCancel(g)
    \/ \E g \in Gens : ReplyIps(g) /\ OneDevice(g)
    \/ \E g \in Gens : SpeakerConnectOk(g)
    \/ \E g \in Gens : \E reply \in PlainReplies : NetworkStateOk(g, reply)
    \/ \E g \in Gens : NetworkStateErr(g)
    \/ \E g \in Gens : CloseDone(g)

\* ---------------------------------------------------------- specifications

Init == ConnInit /\ DiscInit

ConnSpec == Init /\ [][ConnNext]_vars

SendSpec == Init /\ [][SendNext]_vars

DecodeSpec == Init /\ [][DecodeNext]_vars

ReplySpec == Init /\ [][ReplyNext]_vars

\* The runtime polls every woken task, and the timer of timeout() fires.
ConnFairSpec == ConnSpec /\ \A c \in Calls : WF_vars(CallStep(c))

DiscSpec == Init /\ [][DiscNext]_vars

StopSpec == Init /\ [][StopNext]_vars

\* As DiscFairSpec, for the one loop of StopSpec.
StopFairSpec ==
    /\ StopSpec
    /\ \A g \in Gens : WF_vars(LoopNext(g))
    /\ WF_vars(JoinDone \/ JoinTimeout)

CycleSpec == Init /\ [][CycleNext]_vars

NoteSpec == Init /\ [][NoteNext]_vars

SnapSpec == Init /\ [][SnapNext]_vars

LagSpec == Init /\ [][LagNext]_vars

LinkSpec == Init /\ [][LinkNext]_vars

LockSpec == Init /\ [][LockNext]_vars

\* LockSpec with running tasks: a task that holds what it needs goes on to
\* release it, and a task waiting for a lock that keeps becoming free gets it.
LockFairSpec ==
    /\ LockSpec
    /\ \A t \in Tasks : WF_vars(LockRelease(t))
    /\ \A t \in Tasks : SF_vars(LockAcquire(t))

\* LinkSpec with every task polled when it can run: the loop, and each
\* forwarder whose receiver has something to return.
LinkFairSpec ==
    /\ LinkSpec
    /\ \A g \in Gens : WF_vars(LoopNext(g))
    /\ \A a \in Addrs : \A k \in 1..MaxForwarders : WF_vars(Forward(a, k))

RestartSpec == Init /\ [][RestartNext]_vars

\* The runtime polls every spawned task, every network operation and timer of
\* the loop ends, and the await in stop() ends (at the latest after 500 ms).
DiscFairSpec ==
    /\ DiscSpec
    /\ \A g \in Gens : WF_vars(LoopNext(g))
    /\ WF_vars(JoinDone \/ JoinTimeout)

\* =================================================== properties, Connection

Returned(c) == pc[c] = "done"
GotResponse(c) == result[c] \in {"Ok", "ApiError"}

\* C1: a send_request that returns a response returns the one whose
\* correlation token is the token of the request it sent.
C1_RoundTripCorrelation ==
    \A c \in Calls : GotResponse(c) => rx[c].id = token[c]

\* Two requests in flight, the later one answered first.
C1_Witness ==
    \E c, d \in Calls :
        /\ token[c] < token[d]
        /\ pc[c] = "waiting" /\ rx[c].st = "open"
        /\ Returned(d) /\ result[d] = "Ok"

\* C2: a correlation token resolves a waiting caller at most once; a second
\* frame with the same id finds no entry and resolves nobody.
C2_AtMostOnce ==
    \A t \in Tokens : resolutions[t] <= 1

\* A token that resolved its caller and then arrived again.
C2_Witness ==
    \E t \in Tokens : resolutions[t] = 1 /\ t \in orphaned

\* C3 as claimed: every request in the table when the reader clears it
\* resolves with ConnectionClosed.
C3_AllPendingResolveClosed ==
    \A c \in pendingAtClose : Returned(c) => result[c] = "ConnectionClosed"

\* C3 as amended: every request in the table when the reader clears it whose
\* caller was still awaiting its receiver is woken (its receiver reports the
\* sender gone) and returns ConnectionClosed; a caller whose timeout had
\* already elapsed returns Timeout; none of them gets a response.
C3_PendingAtCloseResolve ==
    \A c \in pendingAtClose :
        /\ ~GotResponse(c)
        /\ pc[c] # "idle"
        /\ pc[c] = "waiting" => rx[c].st = "closed"
        /\ Returned(c) =>
              \/ result[c] = "ConnectionClosed"
              \/ result[c] = "Timeout" /\ c \in elapsed /\ c \notin waitingAtClose
        /\ c \in waitingAtClose /\ Returned(c) => result[c] = "ConnectionClosed"

\* A caller that was waiting when the table was cleared has returned.
C3_Witness ==
    \E c \in waitingAtClose : Returned(c) /\ result[c] = "ConnectionClosed"

\* C4: a call whose timeout elapsed returns Timeout with its entry gone from
\* the table, and no frame carrying its token resolves it, before or after.
C4_TimeoutDropsLateReply ==
    \A c \in Calls :
        /\ Returned(c) /\ c \in elapsed => result[c] = "Timeout"
        /\ result[c] = "Timeout" =>
              /\ token[c] \notin DOMAIN pending_requests
              /\ resolutions[token[c]] = 0
              /\ rx[c].st = "dropped"

\* A call returned Timeout and a reply with its token arrived with no entry left.
C4_Witness ==
    \E c \in Calls : result[c] = "Timeout" /\ token[c] \in orphaned

OutcomeMatches(c) ==
    /\ result[c] \in {"Ok", "ApiError", "Timeout", "ConnectionClosed"}
    /\ GotResponse(c) <=> resolutions[token[c]] >= 1
    /\ result[c] = "Timeout" <=> c \in elapsed
    /\ result[c] = "ConnectionClosed" <=> (c \notin elapsed /\ resolutions[token[c]] = 0)

\* C5: every send_request returns, with the outcome of the one event that
\* ended its wait: the response delivered to it (Ok or ApiError), its timeout
\* elapsing (Timeout), or its sender being dropped (ConnectionClosed).
C5_ExactlyOneOutcome ==
    /\ [](\A c \in Calls : Returned(c) => OutcomeMatches(c))
    /\ \A c \in Calls : (pc[c] = "waiting") ~> Returned(c)

\* One call ended by its timeout, another by the connection closing.
C5_Witness ==
    \E c, d \in Calls :
        /\ Returned(c) /\ result[c] = "Timeout"
        /\ Returned(d) /\ result[d] = "ConnectionClosed"

\* C6: a send_request issued after the reader task has exited never gets a
\* response.
C6_NoSuccessAfterClose ==
    \A c \in issuedAfterClose : ~GotResponse(c) /\ rx[c].st # "value"

\* Such a call was written to the socket and has returned.
C6_Witness ==
    \E c \in issuedAfterClose :
        /\ Returned(c)
        /\ \E i \in 1..Len(wire) : wire[i] = token[c]

\* A reader step that handles `resp` with no pending entry for its id.
HandlesUnmatched(resp) ==
    /\ ReaderInLoop
    /\ nframes' = nframes + 1
    /\ resp.id \in PeerIds
    /\ resp.id \notin DOMAIN pending_requests
    /\ HandleMessage(resp)

\* C16: an inbound frame that matches no pending request and fails the
\* notification shape check (type tag not "network", or no room entry) is
\* dropped: nothing is published, the pending table, the entity registry and
\* the change events stay as they are; so every update ever published comes
\* from a frame that passes the check.
C16_IllShapedDropped ==
    /\ [][\A resp \in Responses :
             (FailsShapeCheck(resp) /\ HandlesUnmatched(resp))
                 => UNCHANGED <<published, pending_requests, rx, rooms, events>>]_vars
    /\ [](\A i \in 1..Len(published) :
             published[i].rtype = "network" /\ published[i].room)

\* Such a frame has been handled, and a well-shaped one has been published.
C16_Witness ==
    illShaped /\ published # <<>>

\* C23: a send_request handed a response whose errors list is there and not
\* empty fails with ApiError, its detail the detail of the list's first
\* entry; handed one whose errors are absent or an empty list, it returns Ok
\* with that response.
C23_ApiErrorFirstDetail ==
    \A c \in Calls :
        (Returned(c) /\ rx[c].st = "value") =>
            LET e == rx[c].errors IN
            /\ (e.some /\ e.list # <<>>) =>
                   (result[c] = "ApiError" /\ api_detail[c] = e.list[1])
            /\ (~e.some \/ e.list = <<>>) =>
                   (result[c] = "Ok" /\ api_detail[c] = NoDetail /\ rx[c].id = token[c])

\* A call has failed on a response with two errors of different details.
C23_Witness ==
    \E c \in Calls :
        /\ result[c] = "ApiError"
        /\ Len(rx[c].errors.list) = 2
        /\ rx[c].errors.list[1] # rx[c].errors.list[2]

\* A reader step that handles `resp`.
Handles(resp) ==
    /\ ReaderInLoop
    /\ nframes' = nframes + 1
    /\ resp.id \in PeerIds
    /\ HandleMessage(resp)

\* C24: a send_only call leaves the pending table as it is and, the writer
\* alive, puts its frame behind the queued ones; no id of a send_only request
\* is ever in the table, and a frame arriving with such an id goes the way of
\* the notifications: no caller is resolved, and it is published if and only
\* if it parses as a room update.
C24_SendOnlyNotCorrelated ==
    /\ [][only_results' # only_results =>
             /\ pending_requests' = pending_requests
             /\ writer = "running" =>
                    /\ Len(ws_queue') = Len(ws_queue) + 1
                    /\ ws_queue'[Len(ws_queue')] = ForeignId + Len(only_results')
                    /\ only_results'[Len(only_results')] = "Ok"]_vars
    /\ []((DOMAIN pending_requests) \cap OnlyIds = {})
    /\ [][\A resp \in PlainResponses :
             (resp.id \in OnlyIds /\ Handles(resp)) =>
                 /\ UNCHANGED <<pending_requests, rx, resolutions>>
                 /\ published' = IF ParseStateUpdate(resp)
                                     THEN Append(published, Shape(resp)) ELSE published]_vars

\* A frame with the id of a send_only request has been published as a
\* notification, a send_request waiting all the while.
C24_Witness ==
    /\ \E i \in 1..Len(published) : published[i].id \in OnlyIds
    /\ \E c \in Calls : pc[c] = "waiting" /\ token[c] \in DOMAIN pending_requests

\* C25: the frames on the socket are those accepted by ws_tx.send, in the
\* order of the sends (all of them, with the queued ones, while the writer
\* lives), and the writer puts them there one whole frame per step, the
\* oldest queued one.
C25_WrittenInSubmissionOrder ==
    /\ [](/\ Len(wire) <= Len(submitted)
           /\ \A i \in 1..Len(wire) : wire[i] = submitted[i]
           /\ writer = "running" => wire \o ws_queue = submitted)
    /\ [][wire' # wire =>
             (ws_queue # <<>> /\ wire' = Append(wire, Head(ws_queue)))]_vars

\* Three frames of both kinds of call are on the socket, a send_only one
\* before a send_request one.
C25_Witness ==
    /\ Len(wire) >= 3
    /\ \E i, j \in 1..Len(wire) : i < j /\ wire[i] \in OnlyIds /\ wire[j] \in Tokens

\* A reader step that hands `resp` to the caller registered under its id.
HandlesMatched(resp) ==
    /\ resp.id \in DOMAIN pending_requests
    /\ Handles(resp)

\* C27: the pending table alone routes an inbound frame. A frame whose id is
\* in the table when the reader handles it, whatever its method, type tag,
\* room entry and errors, takes the entry out, goes to the receiver of the
\* call registered there and is not published; a frame whose id is not in the
\* table changes no receiver and no entry.
C27_RoutedByTableOnly ==
    [][\A resp \in Responses :
          /\ HandlesMatched(resp) =>
                LET c == pending_requests[resp.id] IN
                /\ published' = published
                /\ resp.id \notin DOMAIN pending_requests'
                /\ rx'[c] = OneshotSend(rx[c], resp)
                /\ \A d \in Calls \ {c} : rx'[d] = rx[d]
          /\ HandlesUnmatched(resp) =>
                UNCHANGED <<rx, resolutions, pending_requests>>]_vars

\* Both ways have been gone: a caller has its response, a notification has
\* been published, and a frame with an issued id that was no longer in the
\* table has resolved nobody.
C27_Witness ==
    /\ \E c \in Calls : rx[c].st = "value" /\ rx[c].id = token[c]
    /\ published # <<>>
    /\ orphaned # {}

\* C34: the pending-request table holds only tokens of send_request calls
\* that have not returned yet.
C34_TableHoldsWaitingOnly ==
    \A c \in Calls : Returned(c) => token[c] \notin DOMAIN pending_requests

\* The call that sent the request with token t.
CallOf(t) == CHOOSE c \in Calls : token[c] = t

\* C35: a request's frame is handed to the writer with the request's entry in
\* the table, so that a frame carrying a request's token finds no entry only
\* after the entry was taken out again: by an earlier reply, by the call's own
\* timeout, or by the reader's cleanup.
C35_EntryBeforeReply ==
    /\ [][\A t \in Tokens :
             (Len(submitted') > Len(submitted) /\ submitted'[Len(submitted')] = t)
                 => t \in DOMAIN pending_requests']_vars
    /\ [](\A t \in orphaned :
             /\ \E c \in Calls : token[c] = t /\ pc[c] # "idle"
             /\ \/ resolutions[t] > 0
                \/ CallOf(t) \in elapsed
                \/ CallOf(t) \in pendingAtClose)

\* A call has returned the reply to its request, and a second frame with the
\* same token has found no entry.
C35_Witness ==
    \E c \in Calls :
        /\ result[c] = "Ok"
        /\ resolutions[token[c]] = 1
        /\ token[c] \in orphaned

\* C36: an inbound text frame that is no Response changes neither the pending
\* table, nor a waiting call's receiver, nor what the subscribers are sent, and
\* leaves the reader in its loop, where it handles the frames after it.
C36_UndecodableFrameSkipped ==
    [][undecoded' # undecoded =>
          /\ pending_requests' = pending_requests
          /\ rx' = rx
          /\ published' = published
          /\ reader' = "running"]_vars

\* The first inbound message was no Response; after it a call has got its
\* reply and a notification has been published.
C36_Witness ==
    /\ 1 \in undecoded
    /\ \E c \in Calls : result[c] = "Ok"
    /\ published # <<>>

\* C37: with the writer task stopped, a send_request returns ConnectionClosed
\* in the step that issues it, and so does a send_only.
C37_FailsFastOnceWriterStopped ==
    [][writer = "stopped" =>
          /\ \A c \in Calls :
                 (pc[c] = "idle" /\ pc'[c] # "idle")
                     => pc'[c] = "done" /\ result'[c] = "ConnectionClosed"
          /\ Len(only_results') > Len(only_results)
                 => only_results'[Len(only_results')] = "ConnectionClosed"]_vars

\* With the writer stopped, a send_request has failed at its enqueue (its
\* entry is still in the table) and a send_only has failed.
C37_Witness ==
    /\ writer = "stopped"
    /\ \E c \in Calls :
           /\ Returned(c)
           /\ result[c] = "ConnectionClosed"
           /\ token[c] \in DOMAIN pending_requests
    /\ only_results = <<"ConnectionClosed">>

\* ==================================================== properties, Discovery

\* C7: once stop() has sent the stop signal for a loop, that loop eventually
\* exits, wherever it was when the signal was sent.
C7_StopLeadsToExit ==
    \A g \in Gens : stopSent[g] ~> (lpc[g] = "exited")

\* A step of loop g: its control point, its work list or its backoff changes.
LoopMoved(g) ==
    <<lpc[g], todo[g], kind[g], backoff[g]>>' # <<lpc[g], todo[g], kind[g], backoff[g]>>

\* C8: a running loop that holds the stop signal leaves the loop with its very
\* next step, from whichever wait it is in: it completes no sleep, connect,
\* reply wait or per-device request into a further wait.
C8_StopObservedAtWait ==
    [][\A g \in Gens :
          (stop_rx[g] = "signal" /\ lpc[g] \in Waits /\ LoopMoved(g))
              => lpc'[g] = "exited"]_vars

\* stop() has signalled a loop that is in its backoff sleep and awaits its exit.
C8_Witness ==
    \E g \in Gens :
        /\ lpc[g] = "sleep" /\ backoff[g] > 0
        /\ stop_rx[g] = "signal"
        /\ api_pc = "stop_join" /\ joining = g

\* The sequence of the claim, by the number of consecutive failed cycles.
ExpectedBackoff(n) == <<0, 1, 2, 4, 8, 16, 32, 60>>[Min(n, 7) + 1]

\* C9: after n consecutive cycles that the loop counts as failed (cycles that
\* returned Err) the backoff is the n-th of 0, 1, 2, 4, 8, 16, 32, 60, 60, ...;
\* a cycle that returned Ok puts the count, and the backoff, back to 0.
C9_BackoffSequence ==
    \A g \in Gens :
        /\ backoff[g] = ExpectedBackoff(fails[g])
        /\ backoff[g] <= 60

\* The loop sleeps its second 60 s backoff in a row.
C9_Witness ==
    \E g \in Gens : lpc[g] = "sleep" /\ fails[g] >= 8 /\ backoff[g] = 60

\* A cycle of loop g ends in this step as one of the claim's failures: the
\* service was unreachable, or the reply was a transport error, undecodable,
\* without a usable address list, or carried errors.
FailedCycleEnds(g) ==
    \/ lpc[g] = "connecting" /\ lpc'[g] \notin {"connecting", "sending"}
    \/ lpc[g] = "sending" /\ lpc'[g] \notin {"sending", "waitreply"}
    \/ /\ lpc[g] = "closing" /\ kind'[g] # kind[g]
       /\ kind[g] \in {"wserr", "malformed", "noaddrs", "errors"}

\* C10: every failed cycle is followed by a backoff greater than before, or
\* by the 60 s cap.
C10_EveryFailureBacksOff ==
    [][\A g \in Gens :
          FailedCycleEnds(g) => (backoff'[g] > backoff[g] \/ backoff'[g] = MAX_BACKOFF)]_vars

\* C11: no address ever has more than one connection made to it: a pass that
\* finds the address registered reuses the link, whatever start() and stop()
\* calls come in between.
C11_OneConnectionPerAddress ==
    \A a \in Addrs : links[a] <= 1

\* A step of start() or stop() itself (not of a loop or a forwarder).
ApiStep == apiVars' # apiVars

\* C12: no step of start() or of stop() changes the Device Link registry or
\* the entity registry: a restart hands the maps on to the fresh loop as they
\* are.
C12_RegistriesPreserved ==
    [][ApiStep => (speakers' = speakers /\ rooms' = rooms)]_vars

\* A second start() has just spawned its loop over non-empty registries.
C12_Witness ==
    /\ ngen = 2 /\ lpc[2] = "spawned" /\ api_pc = "idle"
    /\ speakers # {} /\ DOMAIN rooms # {}

\* The loops that are at one of their discovery steps.
RunningLoops == {g \in Gens : lpc[g] \in Waits}

\* C13: at most one discovery loop is at a discovery step at any time: the
\* loop of an earlier start() has exited before the next one begins.
C13_AtMostOneLoop ==
    Cardinality(RunningLoops) <= 1

\* C14: a Device Link has at most one forwarder task, however many passes
\* have processed its address.
C14_OneForwarderPerLink ==
    \A a \in Addrs : forwarders[a] <= 1

\* The k-th forwarder of address a processes the update at the head of its
\* receiver in this step.
ForwardStep(a, k) ==
    /\ k \in DOMAIN inbox[a]
    /\ fwd[a][k] = "running"
    /\ inbox[a][k] # <<>>
    /\ inbox'[a] = [inbox[a] EXCEPT ![k] = Tail(@)]

\* The registry after the step has u's payload under u's id, and every other
\* entry as before.
AppliedAlone(u) ==
    /\ DOMAIN rooms' = (DOMAIN rooms) \cup {u.id}
    /\ rooms'[u.id] = u.body
    /\ \A id \in (DOMAIN rooms) \ {u.id} : rooms'[id] = rooms[id]

\* C15 as claimed: every RoomUpdate with an embedded id that a forwarder
\* processes leaves the registry entry of that id equal to the payload, and
\* the other entries unchanged.
C15_EveryRoomPayloadApplied ==
    [][\A a \in Addrs : \A k \in 1..MaxForwarders :
          (ForwardStep(a, k) /\ Head(inbox[a][k]).id \in RoomIds)
              => AppliedAlone(Head(inbox[a][k]))]_vars

\* C15 as amended: a RoomUpdate whose payload has a valid id and parses into
\* an entity state, when a forwarder of the link processes it, leaves the
\* registry entry of that id equal to the payload (updated, or inserted if the
\* id was absent) and every other entry unchanged.
C15_ParsedPayloadApplied ==
    [][\A a \in Addrs : \A k \in 1..MaxForwarders :
          (ForwardStep(a, k) /\ Applies(Head(inbox[a][k])))
              => AppliedAlone(Head(inbox[a][k]))]_vars

\* A notification has been applied in a registry that holds another room too.
C15_Witness ==
    \E id \in RoomIds : events[id] > 0 /\ DOMAIN rooms = RoomIds

\* C17: a scan leaves every entry the registry already has as it is
\* (first-writer-wins).
C17_FirstWriterWins ==
    [][\A g \in Gens :
          (lpc[g] = "proc_request" /\ todo'[g] # todo[g])
              => \A id \in DOMAIN rooms : id \in DOMAIN rooms' /\ rooms'[id] = rooms[id]]_vars

\* C18: an address whose processing fails does not end the pass: the loop goes
\* on with the address after it, and a pass gone through to its end, failures
\* or not, returns Ok (backoff 0, next pass at once).
C18_FailureDoesNotAbortPass ==
    /\ [][\A g \in Gens :
             (lpc[g] \in {"proc_connect", "proc_request"} /\ LoopMoved(g))
                 => \/ lpc'[g] = "proc_request" /\ todo'[g] = todo[g]
                    \/ /\ todo'[g] = Tail(todo[g])
                       /\ lpc'[g] = IF Tail(todo[g]) = <<>> THEN "closing"
                                    ELSE IF Head(Tail(todo[g])) \in speakers
                                         THEN "proc_request" ELSE "proc_connect"]_vars
    /\ [](\A g \in Gens :
             (lpc[g] = "closing" /\ skipped[g] # {}) => kind[g] = "scanned")
    /\ [][\A g \in Gens :
             (lpc[g] = "closing" /\ kind[g] = "scanned" /\ LoopMoved(g))
                 => (backoff'[g] = 0 /\ fails'[g] = 0 /\ lpc'[g] = "connecting")]_vars

\* The first address of a pass has failed and the second is being asked for
\* its network state.
C18_Witness ==
    \E g \in Gens :
        /\ skipped[g] # {} /\ lpc[g] = "proc_request"
        /\ todo[g] # <<>> /\ Head(todo[g]) \notin skipped[g]

\* C19: no step removes a room id from the entity registry.
C19_RegistryNeverShrinks ==
    [][(DOMAIN rooms) \subseteq (DOMAIN rooms')]_vars

\* The latest scan did not report a room that was registered (a notification
\* had inserted it), every forwarder has emptied its receiver, and stop() has
\* been called: the room is there.
C19_Witness ==
    /\ unseen # {} /\ unseen \subseteq DOMAIN rooms
    /\ inbox[1] # <<>> /\ \A k \in DOMAIN inbox[1] : inbox[1][k] = <<>>
    /\ \E g \in Gens : stopSent[g]

\* C20: what a Room handle returned by rooms() shows stays what it showed
\* when rooms() returned.
C20_SnapshotStable ==
    \A id \in DOMAIN snap.view : snap.view[id].now = snap.view[id].seen

\* A stop() call returns in this step: at once, or at the end of its await.
StopReturns ==
    \/ idleStops' # idleStops
    \/ api_pc = "stop_join" /\ api_pc' = "idle"

\* C21: a stop() that finds the discovery not running (never started, or
\* stopped before) returns at once and changes nothing: not the registries,
\* not any loop, not what start() and stop() keep; and every stop() leaves
\* the discovery in that state when it returns, so a stop() right after
\* another is such a call.
C21_IdleStopIsNoOp ==
    /\ [][idleStops' # idleStops =>
             /\ stop_tx = NoGen /\ task_handle = NoGen
             /\ UNCHANGED <<stop_tx, task_handle, ngen, api_pc, joining>>
             /\ UNCHANGED <<speakers, rooms, forwarders, links, noteVars, loopVars>>
             /\ UNCHANGED <<stopSent, fails, skipped>>]_vars
    /\ [][StopReturns =>
             (stop_tx' = NoGen /\ task_handle' = NoGen /\ api_pc' = "idle")]_vars

\* stop() has found nothing to stop, with a loop stopped before it and rooms
\* in the registry.
C21_Witness ==
    /\ idleStops > 0 /\ api_pc = "idle"
    /\ \E g \in Gens : stopSent[g] /\ lpc[g] = "exited"
    /\ DOMAIN rooms # {}

\* C22: a failure inside the loop stays inside it. start() returns as soon as
\* it has spawned the loop; the loop leaves only with the stop signal in its
\* receiver; a cycle that ends in Err changes nothing of what start() and
\* stop() keep; and a loop sleeping after a failed cycle goes on to the
\* connect of its next cycle, unless it is stopped first.
C22_ErrorsStayInLoop ==
    /\ [][ngen' # ngen => (api_pc' = "idle" /\ lpc'[ngen'] = "spawned")]_vars
    /\ [][\A g \in Gens :
             (lpc[g] \in Waits /\ lpc'[g] = "exited") => stop_rx[g] = "signal"]_vars
    /\ [][\A g \in Gens :
             fails'[g] > fails[g] =>
                 UNCHANGED <<stop_tx, task_handle, ngen, api_pc, joining>>]_vars
    /\ \A g \in Gens : (lpc[g] = "sleep") ~> (lpc[g] \in {"connecting", "exited"})

\* After two failed cycles in a row the loop is at the connect of a third,
\* and nobody has called stop().
C22_Witness ==
    \E g \in Gens :
        /\ fails[g] >= 2 /\ lpc[g] = "connecting"
        /\ api_pc = "idle" /\ stop_tx = g /\ ~stopSent[g]

\* ---- the notification channel and the forwarders' lifetime

\* The receivers that have not been dropped.
Receivers == {r \in Addrs \X (1..MaxForwarders) :
                 r[2] \in DOMAIN fwd[r[1]] /\ fwd[r[1]][r[2]] # "ended"}

\* The values receiver r has not received yet, oldest first.
Unreceived(r) == inbox[r[1]][r[2]]

\* This step is a notification published on the link of some address.
PublishStep == nnotes' = nnotes + 1

\* C26 as claimed: a published notification goes behind the unreceived ones of
\* every subscriber of the connection, none of which is lost, so that each
\* subscriber receives every notification published after it subscribed, in
\* publication order.
C26_EveryNotificationReceived ==
    [][PublishStep =>
          \E a \in Addrs : \E u \in Updates : \A r \in Receivers :
              inbox'[r[1]][r[2]] = IF r[1] = a THEN Append(Unreceived(r), u)
                                               ELSE Unreceived(r)]_vars

\* C26 as amended: each subscriber receives the notifications published after
\* it subscribed in publication order and independently of the other
\* subscribers, as long as it is never more than the channel's capacity behind:
\* a notification published to a subscriber that holds the capacity in
\* unreceived notifications overwrites the oldest of them, and the subscriber
\* is told that it lagged.
C26_ReceivedUnlessOverrun ==
    /\ [][PublishStep =>
             \E a \in Addrs : \E u \in Updates : \A r \in Receivers :
                 LET q == Unreceived(r) IN
                 IF r[1] # a
                    THEN inbox'[r[1]][r[2]] = q /\ fwd'[r[1]][r[2]] = fwd[r[1]][r[2]]
                    ELSE IF Len(q) < MaxRetained
                            THEN /\ inbox'[a][r[2]] = Append(q, u)
                                 /\ fwd'[a][r[2]] = fwd[a][r[2]]
                            ELSE /\ inbox'[a][r[2]] = Append(Tail(q), u)
                                 /\ fwd'[a][r[2]] = "lagged"]_vars
    /\ [][~PublishStep =>
             /\ \A r \in Receivers :
                    \/ inbox'[r[1]][r[2]] = Unreceived(r)
                    \/ Unreceived(r) # <<>> /\ inbox'[r[1]][r[2]] = Tail(Unreceived(r))
                    \/ fwd'[r[1]][r[2]] = "ended"
             /\ \A r1, r2 \in Receivers :
                    (/\ inbox'[r1[1]][r1[2]] # Unreceived(r1)
                     /\ inbox'[r2[1]][r2[2]] # Unreceived(r2)) => r1 = r2
             /\ \A a \in Addrs : \A k \in (DOMAIN inbox'[a]) \ (DOMAIN inbox[a]) :
                    inbox'[a][k] = <<>>]_vars

\* Two subscribers of one link: the first subscribed before the first
\* notification and has lagged, the second subscribed after it and holds the
\* second notification.
C26_Witness ==
    \E a \in Addrs :
        /\ Len(fwd[a]) >= 2
        /\ fwd[a][1] = "lagged"
        /\ fwd[a][2] = "running"
        /\ Len(inbox[a][2]) = 1
        /\ nnotes >= 2

\* C28: no task takes a lock while it holds another one.
C28_NoNestedLocks ==
    nested = {}

\* A notification has reached the registry after stop() was complete.
AppliesLate(a, k) ==
    /\ ForwardStep(a, k)
    /\ (nnotes - Len(inbox[a][k]) + 1) \in late

\* C29: a notification that arrives after stop() has been called, the signal
\* delivered and the loop exited does not change the entity registry and
\* emits no change event.
C29_NothingAppliedAfterStop ==
    [][\A a \in Addrs : \A k \in 1..MaxForwarders :
          AppliesLate(a, k) => rooms' = rooms /\ events' = events]_vars

\* C30: a forwarder spawned for a Device Link does not terminate while the
\* link's connection is open.
C30_ForwarderOutlivesLag ==
    \A a \in speakers : \A k \in DOMAIN fwd[a] : fwd[a][k] # "ended"

\* ---- change events, receive errors, closed links

\* C31: a forwarder never writes into a registry entry an update older than
\* one a change event has already been sent for, so that whoever reads the
\* entry on receiving the event finds the update that caused it, or a later
\* one.
C31_RegistryNotBehindEvent ==
    [][\A a \in Addrs : \A k \in 1..MaxForwarders :
          (ForwardStep(a, k) /\ Applies(Head(inbox[a][k])))
              => HeadIndex(a, k) >= announced[Head(inbox[a][k]).id]]_vars

\* C32: a receiver that has lost values to the bounded channel is handed
\* nothing past the gap before it is told: the step in which it next receives
\* returns ChannelError (no other error kind is ever returned for a lag) and
\* changes neither the registry nor the change events.
C32_LagIsReported ==
    /\ [][\A a \in Addrs : \A k \in DOMAIN inbox[a] :
             (fwd[a][k] = "lagged" /\ ~PublishStep /\ inbox'[a][k] # inbox[a][k])
                 => /\ "ChannelError" \in recvErr'
                    /\ fwd'[a][k] = "ended"
                    /\ rooms' = rooms
                    /\ events' = events]_vars
    /\ [](\A e \in recvErr : e = "ChannelError")
    /\ [](\A a \in Addrs : \A k \in DOMAIN fwd[a] :
             fwd[a][k] = "ended" => recvErr # {})

\* A receiver has been told that it lagged, while another receiver of the
\* link goes on.
C32_Witness ==
    /\ recvErr = {"ChannelError"}
    /\ \E a \in Addrs : \E k, j \in DOMAIN fwd[a] :
           fwd[a][k] = "ended" /\ fwd[a][j] = "running"

\* C33: process_speaker does not send its request on a link whose connection
\* has closed: a pass that reports the address of such a link connects anew.
C33_ClosedLinkReconnected ==
    [][\A g \in Gens :
          (/\ todo'[g] # todo[g]
           /\ todo'[g] # <<>>
           /\ Head(todo'[g]) \in closed)
              => lpc'[g] \in {"proc_connect", "exited"}]_vars

\* C38: a RoomUpdate without a valid id, or whose payload does not parse into
\* an entity state, leaves the registry as it is (no entry changed, none
\* inserted) and sends no change event.
C38_FailedApplyChangesNothing ==
    [][\A a \in Addrs : \A k \in 1..MaxForwarders :
          (/\ ForwardStep(a, k)
           /\ \/ Head(inbox[a][k]).id = NoId
              \/ Head(inbox[a][k]).body = BadBody)
              => rooms' = rooms /\ events' = events]_vars

\* Two forwarders of one link have been sent an update for a registered room
\* that does not parse: the first has processed it, the second not yet.
C38_Witness ==
    \E a \in Addrs :
        /\ Len(inbox[a]) = 2
        /\ inbox[a][1] = <<>>
        /\ inbox[a][2] # <<>>
        /\ Head(inbox[a][2]).body = BadBody
        /\ Head(inbox[a][2]).id \in DOMAIN rooms
        /\ nnotes = 1

\* C39: once a link's connection has closed, every forwarder of the link
\* eventually terminates.
C39_ForwardersEndWithLink ==
    \A a \in Addrs :
        (a \in closed) ~> (\A k \in DOMAIN fwd[a] : fwd[a][k] = "ended")

\* ---- lock order

\* A set of tasks each waiting for a lock that another task of the set holds.
Deadlocked(S) ==
    /\ S # {}
    /\ \A t \in S : Wants(t) /\ \E u \in S : Wanted(t) \in HeldBy(u)

====
